---- MODULE Spec2Model ----
(***************************************************************************)
(* The configuration managers of chawas/charara                            *)
(* (scripts/configuration_manager.py, scripts/config_manager_01.py and     *)
(* scripts/config_manager.py) as one state machine: a backing file and a   *)
(* directory tree, the construction of a ConfigManager on them, and the    *)
(* accessors of the constructed object.                                    *)
(*                                                                         *)
(* Values.  A Python value (what json.load / yaml.safe_load returns, a     *)
(* default tree, the result of get) is a function from key paths to nodes: *)
(* the node at <<>> is the value itself, and a mapping has one entry per   *)
(* key path below it.  A node is [kind, s]; kind is "map", "str", "num",   *)
(* "list", "bool" or "null", and s is the text of a scalar as a sequence   *)
(* of tokens.  A token is "/", "." or a name, so that a path string such   *)
(* as "/home/chawas" is <<"/", "home", "/", "chawas">> and pathlib's       *)
(* parsing of it is computed, not assumed.                                 *)
(***************************************************************************)
EXTENDS Integers, Sequences, FiniteSets, TLC

(***************************************************************************)
(* Bounds of the model.                                                    *)
(***************************************************************************)
\* longest path string (in tokens) enumerated for the user's files
MaxPathLen == 3

(***************************************************************************)
(* Python values                                                           *)
(***************************************************************************)
Node(kind, s) == [kind |-> kind, s |-> s]

Leaf(kind, s) == [p \in {<< >>} |-> Node(kind, s)]

Str(s) == Leaf("str", s)

Num(t) == Leaf("num", <<t>>)

List(s) == Leaf("list", s)

Bool(t) == Leaf("bool", <<t>>)

\* a tuple, which json.dump writes as an array
Tuple(s) == Leaf("tuple", s)

\* an object json.dump has no encoding for (a numpy integer, a Path)
Obj(t) == Leaf("obj", <<t>>)

\* Python's None (also JSON null / YAML null)
NoneV == Leaf("null", << >>)

EmptyMap == Leaf("map", << >>)

\* a dict literal: f is a record (or function) from keys to values
MapOf(f) ==
    [p \in {<< >>} \cup UNION {{<<k>> \o q : q \in DOMAIN f[k]} : k \in DOMAIN f} |->
        IF p = << >> THEN Node("map", << >>) ELSE f[Head(p)][Tail(p)]]

\* isinstance(v, dict)
IsDict(v) == v[<< >>].kind = "map"

IsStr(v) == v[<< >>].kind = "str"

IsNone(v) == v[<< >>].kind = "null"

\* the keys of a dict
Keys(v) == {p[1] : p \in {q \in DOMAIN v : Len(q) = 1}}

\* k in v
HasKey(v, k) == <<k>> \in DOMAIN v

\* v[k]
Item(v, k) ==
    [q \in {Tail(p) : p \in {r \in DOMAIN v : Len(r) >= 1 /\ r[1] = k}} |-> v[<<k>> \o q]]

\* v.get(k): None for a missing key
DictGet(v, k) == IF HasKey(v, k) THEN Item(v, k) ELSE NoneV

\* v[k] = w on a dict v
SetItem(v, k, w) ==
    [p \in {r \in DOMAIN v : Len(r) = 0 \/ r[1] # k} \cup {<<k>> \o q : q \in DOMAIN w} |->
        IF Len(p) >= 1 /\ p[1] = k THEN w[Tail(p)] ELSE v[p]]

\* v.update(w) on dicts: every entry of w is stored into v, in turn
RECURSIVE UpdateKeys(_, _, _)
UpdateKeys(v, w, ks) ==
    IF ks = {} THEN v
    ELSE LET k == CHOOSE x \in ks : TRUE
         IN  UpdateKeys(SetItem(v, k, Item(w, k)), w, ks \ {k})

DictUpdate(v, w) == UpdateKeys(v, w, Keys(w))

\* bool(v): Python truthiness
Truthy(v) ==
    LET n == v[<< >>]
    IN  CASE n.kind = "map"  -> Keys(v) # {}
          [] n.kind = "str"  -> n.s # << >>
          [] n.kind = "list" -> n.s # << >>
          [] n.kind = "tuple" -> n.s # << >>
          [] n.kind = "obj"  -> TRUE
          [] n.kind = "num"  -> n.s \notin {<<"0">>, <<"0.0">>}
          [] n.kind = "bool" -> n.s = <<"True">>
          [] OTHER           -> FALSE

\* str(v) for a scalar; the repr of a container is one opaque name
StrOf(v) ==
    LET n == v[<< >>]
    IN  CASE n.kind \in {"str", "num", "bool"} -> n.s
          [] n.kind = "null" -> <<"None">>
          [] n.kind = "list" -> <<"[..]">>
          [] OTHER           -> <<"{..}">>

(***************************************************************************)
(* pathlib on POSIX                                                        *)
(***************************************************************************)
\* the segments of s between "/" tokens, empty ones included
RECURSIVE SplitOn(_, _, _)
SplitOn(s, sep, cur) ==
    IF s = << >> THEN <<cur>>
    ELSE IF Head(s) = sep THEN <<cur>> \o SplitOn(Tail(s), sep, << >>)
    ELSE SplitOn(Tail(s), sep, Append(cur, Head(s)))

\* pathlib drops empty segments and "." segments
RECURSIVE DropDots(_)
DropDots(segs) ==
    IF segs = << >> THEN << >>
    ELSE IF Head(segs) \in {<< >>, <<".">>} THEN DropDots(Tail(segs))
    ELSE <<Head(segs)>> \o DropDots(Tail(segs))

\* the root of a path string: "", "/" or (exactly two leading slashes) "//"
RootOf(s) ==
    IF s = << >> \/ Head(s) # "/" THEN << >>
    ELSE IF Len(s) >= 2 /\ s[2] = "/" /\ (Len(s) = 2 \/ s[3] # "/") THEN <<"/", "/">>
    ELSE <<"/">>

\* Path(s)
ParsePath(s) == [root |-> RootOf(s), segs |-> DropDots(SplitOn(s, "/", << >>))]

\* path.is_absolute()
IsAbsolute(p) == p.root # << >>

\* a / b
JoinPath(a, b) ==
    IF b.root # << >> THEN b ELSE [root |-> a.root, segs |-> a.segs \o b.segs]

RECURSIVE JoinSegs(_)
JoinSegs(segs) ==
    IF segs = << >> THEN << >>
    ELSE IF Len(segs) = 1 THEN Head(segs)
    ELSE Head(segs) \o <<"/">> \o JoinSegs(Tail(segs))

\* str(path)
StrPath(p) ==
    IF p.root = << >> /\ p.segs = << >> THEN <<".">> ELSE p.root \o JoinSegs(p.segs)

\* path.parent
ParentPath(p) ==
    IF p.segs = << >> THEN p ELSE [root |-> p.root, segs |-> SubSeq(p.segs, 1, Len(p.segs) - 1)]

(***************************************************************************)
(* The hardcoded default trees                                             *)
(***************************************************************************)
\* "/home/chawas/deployed/charara"
HomeBase == <<"/", "home", "/", "chawas", "/", "deployed", "/", "charara">>

\* configuration_manager.py, create_default_config
default_config_cfg ==
    MapOf([
        project |-> MapOf([
            name |-> Str(<<"Lake Kariba Wind Analysis">>),
            version |-> Str(<<"1.0">>)]),
        analysis_period |-> MapOf([
            start_year |-> Num("2015"),
            end_year |-> Num("2020")]),
        paths |-> MapOf([
            base_directory |-> Str(HomeBase),
            data |-> MapOf([
                wind_data |-> Str(<< >>),
                era5_data |-> Str(<< >>)]),
            output |-> MapOf([
                base |-> Str(HomeBase \o <<"/", "output">>)])])])

\* config_manager_01.py, create_default_config
default_config_01 ==
    MapOf([
        project |-> MapOf([
            name |-> Str(<<"Lake Kariba Wind Analysis">>),
            version |-> Str(<<"1.0.0">>),
            description |-> Str(<<"Wind analysis for floating solar panels at Lake Kariba">>)]),
        analysis_period |-> MapOf([
            start_year |-> Num("2015"),
            end_year |-> Num("2020")]),
        paths |-> MapOf([
            base_directory |-> Str(HomeBase),
            data |-> MapOf([
                wind_data |-> Str(HomeBase \o <<"/", "data", "/", "era5_downloads", "/", "wind_data.nc">>),
                era5_data |-> Str(HomeBase \o <<"/", "data", "/", "era5_downloads", "/", "era5_data.nc">>)]),
            scripts |-> Str(HomeBase \o <<"/", "scripts">>),
            output |-> MapOf([
                base |-> Str(HomeBase \o <<"/", "output">>),
                maps |-> Str(HomeBase \o <<"/", "output", "/", "wind_maps">>),
                timeseries |-> Str(HomeBase \o <<"/", "output", "/", "timeseries">>),
                statistics |-> Str(HomeBase \o <<"/", "output", "/", "statistics">>),
                reports |-> Str(HomeBase \o <<"/", "output", "/", "reports">>)]),
            templates |-> Str(HomeBase \o <<"/", "templates">>),
            logs |-> Str(HomeBase \o <<"/", "logs">>)]),
        location |-> MapOf([
            site_name |-> Str(<<"Charara Floating Solar Site">>),
            latitude |-> Num("-16.53"),
            longitude |-> Num("28.83"),
            description |-> Str(<<"Northeastern Lake Kariba, Zimbabwe">>)]),
        analysis_parameters |-> MapOf([
            wind_speed_thresholds |-> MapOf([
                normal_operation |-> Num("8.0"),
                caution |-> Num("12.0"),
                danger |-> Num("15.0"),
                emergency_shutdown |-> Num("18.0")]),
            map_extent |-> MapOf([
                min_lon |-> Num("26.5"),
                max_lon |-> Num("29.5"),
                min_lat |-> Num("-18.0"),
                max_lat |-> Num("-16.0")]),
            charara_highlight_radius |-> Num("0.2"),
            wind_speed_range |-> List(<<"0", "10">>)]),
        plotting |-> MapOf([
            figure_size |-> List(<<"16", "12">>),
            dpi |-> Num("300"),
            font_size |-> MapOf([
                title |-> Num("16"),
                axis |-> Num("12"),
                legend |-> Num("10"),
                annotation |-> Num("9")])])])

\* config_manager.py, _load_config: the literal default_config, with the
\* value of project.created (datetime.now()) left open
default_literal_cm ==
    MapOf([
        project |-> MapOf([
            name |-> Str(<<"Lake Kariba Floating Solar Wind Analysis">>),
            version |-> Str(<<"2.0">>),
            description |-> Str(<<"Enhanced wind analysis for floating solar feasibility">>),
            author |-> Str(<<"Wind Analysis Team">>),
            created |-> NoneV]),
        analysis_period |-> MapOf([
            start_year |-> Num("2015"),
            end_year |-> Num("2020"),
            years |-> List(<<"2015", "2016", "2017", "2018", "2019", "2020">>)]),
        location |-> MapOf([
            site_name |-> Str(<<"Charara Floating Solar Site">>),
            latitude |-> Num("-16.53"),
            longitude |-> Num("28.83"),
            region |-> Str(<<"Lake Kariba, Zimbabwe-Zambia border">>),
            elevation |-> Num("485")]),
        wind_analysis |-> MapOf([
            variables |-> List(<<"u10", "v10", "t2m", "sp", "d2m", "blh">>),
            wind_speed_bins |-> List(<<"0", "2", "5", "8", "12", "20">>),
            direction_bins |-> Num("16"),
            seasons |-> MapOf([
                summer |-> List(<<"12", "1", "2">>),
                autumn |-> List(<<"3", "4", "5">>),
                winter |-> List(<<"6", "7", "8">>),
                spring |-> List(<<"9", "10", "11">>)]),
            percentiles |-> List(<<"5", "25", "50", "75", "95", "99">>)]),
        era5 |-> MapOf([
            dataset |-> Str(<<"reanalysis-era5-single-levels">>),
            variables |-> List(<<"10m_u_component_of_wind", "10m_v_component_of_wind",
                                 "2m_temperature", "surface_pressure",
                                 "2m_dewpoint_temperature", "boundary_layer_height">>),
            area |-> List(<<"-10.0", "26.0", "-18.0", "30.0">>),
            grid_resolution |-> List(<<"0.25", "0.25">>),
            time_step |-> Str(<<"hourly">>)]),
        paths |-> MapOf([
            base_directory |-> Str(HomeBase),
            data |-> MapOf([
                era5_raw |-> Str(<<"data", "/", "era5_raw">>),
                era5_processed |-> Str(<<"data", "/", "era5_processed">>),
                wind_data |-> Str(<<"data", "/", "wind_data.nc">>),
                lake_shapefile |-> Str(<<"data", "/", "shapefiles", "/", "lake_kariba.shp">>),
                topography |-> Str(<<"data", "/", "topography">>)]),
            output |-> MapOf([
                base |-> Str(<<"output">>),
                maps |-> Str(<<"output", "/", "maps">>),
                timeseries |-> Str(<<"output", "/", "timeseries">>),
                statistics |-> Str(<<"output", "/", "statistics">>),
                reports |-> Str(<<"output", "/", "reports">>),
                clustering |-> Str(<<"output", "/", "clustering">>),
                validation |-> Str(<<"output", "/", "validation">>)]),
            scripts |-> Str(<<"scripts">>),
            templates |-> Str(<<"templates">>),
            logs |-> Str(<<"logs">>)]),
        visualization |-> MapOf([
            colormaps |-> MapOf([
                wind_speed |-> Str(<<"viridis">>),
                temperature |-> Str(<<"plasma">>),
                pressure |-> Str(<<"cividis">>),
                direction |-> Str(<<"hsv">>)]),
            figure_size |-> List(<<"12", "8">>),
            dpi |-> Num("150"),
            font_size |-> Num("12"),
            style |-> Str(<<"seaborn-v0_8-darkgrid">>)]),
        clustering |-> MapOf([
            n_clusters |-> Num("4"),
            features |-> List(<<"wind_speed", "wind_direction", "temperature">>),
            algorithm |-> Str(<<"kmeans">>),
            random_state |-> Num("42")]),
        reporting |-> MapOf([
            format |-> Str(<<"html">>),
            include_sections |-> List(<<"executive_summary", "methodology", "results", "conclusions">>),
            generate_pdf |-> Bool("True"),
            email_report |-> Bool("False")])])

\* default_config as built on the day today: 'created' is
\* datetime.now().strftime('%Y-%m-%d')
with_created_cm(literal, today) ==
    SetItem(literal, "project", SetItem(Item(literal, "project"), "created", Str(<<today>>)))

default_config_cm(today) == with_created_cm(default_literal_cm, today)

(***************************************************************************)
(* Dotted-key lookup.  A key is the sequence of its segments, the result   *)
(* of key.split('.').                                                      *)
(***************************************************************************)
\* a faulty loop of get: a falsy stored value is answered with the default
RECURSIVE get_walk_falsy(_, _, _)
get_walk_falsy(value, keys, default) ==
    IF keys = << >> THEN (IF Truthy(value) THEN value ELSE default)
    ELSE IF IsDict(value) /\ HasKey(value, Head(keys))
         THEN get_walk_falsy(Item(value, Head(keys)), Tail(keys), default)
         ELSE default

\* configuration_manager.py and config_manager_01.py: the loop of get
RECURSIVE get_walk(_, _, _)
get_walk(value, keys, default) ==
    IF keys = << >> THEN value
    ELSE IF IsDict(value) /\ HasKey(value, Head(keys))
         THEN get_walk(Item(value, Head(keys)), Tail(keys), default)
         ELSE default

get_cfg(config, key, default) == get_walk(config, key, default)

get_01(config, key, default) == get_walk(config, key, default)

\* config_manager.py: the loop of get, value = value.get(k)
RECURSIVE get_walk_cm(_, _, _)
get_walk_cm(value, keys, default) ==
    IF keys = << >> THEN (IF IsNone(value) THEN default ELSE value)
    ELSE IF IsDict(value)
         THEN get_walk_cm(DictGet(value, Head(keys)), Tail(keys), default)
         ELSE default

get_cm(config, key, default) == get_walk_cm(config, key, default)

(***************************************************************************)
(* get_path.  The result is [st, s]: st = "ok" with the path string s,     *)
(* st = "none" for the None sentinel, st = "raise" for an exception that   *)
(* leaves get_path; log holds the messages get_path logged (the logger is  *)
(* at level INFO, so logger.debug emits nothing).                          *)
(***************************************************************************)
PathOk(s) == [st |-> "ok", s |-> s, log |-> << >>]

PathNone == [st |-> "none", s |-> << >>, log |-> << >>]

PathRaise == [st |-> "raise", s |-> << >>, log |-> << >>]

\* the path string, after logger.warning
PathWarned(s, msg) == [st |-> "ok", s |-> s, log |-> <<[level |-> "WARNING", msg |-> msg]>>]

\* None, after logger.error in the except branch
PathFailed(msg) == [st |-> "none", s |-> << >>, log |-> <<[level |-> "ERROR", msg |-> msg]>>]

\* a faulty join: path / base_dir
rebase_swapped_cfg(base, path) ==
    IF ~IsStr(base) THEN PathRaise
    ELSE PathOk(StrPath(JoinPath(path, ParsePath(base[<< >>].s))))

\* configuration_manager.py: Path(x) raises TypeError unless x is a string
\* base_dir / path, with base_dir = Path(self.get("paths.base_directory", "."))
rebase_cfg(base, path) ==
    IF ~IsStr(base) THEN PathRaise
    ELSE PathOk(StrPath(JoinPath(ParsePath(base[<< >>].s), path)))

absolute_cfg(config, path) ==
    IF IsAbsolute(path) THEN PathOk(StrPath(path))
    ELSE rebase_cfg(get_cfg(config, <<"paths", "base_directory">>, Str(<<".">>)), path)

resolve_cfg(config, path_value) ==
    IF ~Truthy(path_value) THEN PathNone
    ELSE IF ~IsStr(path_value) THEN PathRaise
    ELSE absolute_cfg(config, ParsePath(path_value[<< >>].s))

get_path_cfg(config, key) == resolve_cfg(config, get_cfg(config, key, NoneV))

\* config_manager_01.py: Path(str(x)); every exception is caught and answered None
\* Path(base_dir) / path when base_dir is truthy, else the path as it is
rebase_01(base_dir, path) ==
    IF ~Truthy(base_dir)
    THEN PathWarned(StrPath(path), "Cannot make path absolute, no base directory")
    ELSE IF ~IsStr(base_dir) THEN PathFailed("Error getting path")
    ELSE PathOk(StrPath(JoinPath(ParsePath(base_dir[<< >>].s), path)))

absolute_01(config, path) ==
    IF IsAbsolute(path) THEN PathOk(StrPath(path))
    ELSE rebase_01(get_01(config, <<"paths", "base_directory">>, NoneV), path)

resolve_01(config, path_value) ==
    IF ~Truthy(path_value) THEN PathNone
    ELSE absolute_01(config, ParsePath(StrOf(path_value)))

get_path_01(config, key) == resolve_01(config, get_01(config, key, NoneV))

\* a path string that starts at a root
StartsAtRoot(s) == s # << >> /\ Head(s) = "/"

\* os.path.join(B, P) on strings
OsJoin(B, P) ==
    IF StartsAtRoot(P) THEN P
    ELSE IF B = << >> \/ B[Len(B)] = "/" THEN B \o P
    ELSE B \o <<"/">> \o P

(***************************************************************************)
(* get_output_filename.  The result is as for get_path.                    *)
(***************************************************************************)
\* f"{v}" for a number, a string or None
fstring(v) == IF IsNone(v) THEN <<"None">> ELSE v[<< >>].s

\* the key handed to get_path: "output.<subdirectory>", or "output.base"
\* when no subdirectory is given
output_key(sub) == IF sub = << >> THEN <<"output", "base">> ELSE <<"output">> \o sub

\* config_manager_01.py: dir is what get_path gave for the directory; a
\* missing directory is answered None, and the years are left out unless
\* both are truthy
get_output_filename_01(config, base, ext, sub, dir) ==
    IF dir.st # "ok" \/ dir.s = << >> THEN PathFailed("Cannot get output directory")
    ELSE IF /\ Truthy(get_01(config, <<"analysis_period", "start_year">>, Str(<< >>)))
            /\ Truthy(get_01(config, <<"analysis_period", "end_year">>, Str(<< >>)))
    THEN PathOk(OsJoin(dir.s,
                       base \o <<"_">>
                            \o fstring(get_01(config, <<"analysis_period", "start_year">>, Str(<< >>)))
                            \o <<"_">>
                            \o fstring(get_01(config, <<"analysis_period", "end_year">>, Str(<< >>)))
                            \o <<".">> \o ext))
    ELSE PathOk(OsJoin(dir.s, base \o <<".">> \o ext))

\* configuration_manager.py: nothing is guarded, so os.path.join(None, ..)
\* raises TypeError
get_output_filename_cfg(config, base, ext, sub, dir) ==
    IF dir.st # "ok" THEN PathRaise
    ELSE PathOk(OsJoin(dir.s,
                       base \o <<"_">>
                            \o fstring(get_cfg(config, <<"analysis_period", "start_year">>, NoneV))
                            \o <<"_">>
                            \o fstring(get_cfg(config, <<"analysis_period", "end_year">>, NoneV))
                            \o <<".">> \o ext))

\* config_manager_01.py, validate: True when every required field is truthy
\* and get_path finds every path field
validate_01(config) ==
    Bool(IF /\ \A field \in {<<"project", "name">>, <<"analysis_period", "start_year">>,
                             <<"analysis_period", "end_year">>, <<"location", "latitude">>,
                             <<"location", "longitude">>} :
                  Truthy(get_01(config, field, NoneV))
            /\ \A field \in {<<"paths", "base_directory">>, <<"output", "base">>} :
                  get_path_01(config, field).st = "ok"
         THEN "True" ELSE "False")

(***************************************************************************)
(* The filesystem: the set of existing directories (as normalised path     *)
(* strings), the set of directories whose creation is refused, and the     *)
(* backing file [exists, readable, writable, syn, tree]: syn is "doc" for  *)
(* a file that parses (to tree), "bad" for a malformed one and "empty"     *)
(* for a file of no bytes.                                                 *)
(***************************************************************************)
\* the path strings of p's ancestors and of p itself, outermost first
Chain(p) == [i \in 1..Len(p.segs) |-> StrPath([root |-> p.root, segs |-> SubSeq(p.segs, 1, i)])]

\* os.makedirs(s, exist_ok=True) / Path(s).mkdir(parents=True, exist_ok=True):
\* [ok, dirs]; with ok = FALSE the call raised, after creating the ancestors
\* that could be created
RECURSIVE MakeChain(_, _, _)
MakeChain(chain, ds, refused) ==
    IF chain = << >> THEN [ok |-> TRUE, dirs |-> ds]
    ELSE IF Head(chain) \in ds THEN MakeChain(Tail(chain), ds, refused)
    ELSE IF Head(chain) \in refused THEN [ok |-> FALSE, dirs |-> ds]
    ELSE MakeChain(Tail(chain), ds \cup {Head(chain)}, refused)

makedirs(s, ds, refused) == MakeChain(Chain(ParsePath(s)), ds, refused)

\* os.path.isdir(s)
DirExists(s, ds) ==
    LET p == ParsePath(s) IN p.segs = << >> \/ StrPath(p) \in ds

FileRec(exists, readable, writable, syn, tree) ==
    [exists |-> exists, readable |-> readable, writable |-> writable, syn |-> syn, tree |-> tree]

\* self.config_file, as given to the constructor
ConfigFile == <<"/", "tmp", "/", "proj", "/", "config", "/", "test.json">>

\* str(self.config_file.parent)
ConfigDir == StrPath(ParentPath(ParsePath(ConfigFile)))

\* open(self.config_file, 'w') succeeds
CanWrite(f, ds) == DirExists(ConfigDir, ds) /\ f.writable

\* the file after open(..., 'w') and json.dump / yaml.dump of tree
Written(f, tree) == FileRec(TRUE, f.readable, f.writable, "doc", tree)

\* json.load / yaml.safe_load gives a tree
Parses(f) == f.syn = "doc"

LogRec(level, msg) == [level |-> level, msg |-> msg]

\* the state a constructor leaves: phase is "ready" when __init__ returned,
\* "raised" when an exception left it, "exited" when it ended the process
Outcome(f, ds, config, attrs, log, phase) ==
    [file |-> f, dirs |-> ds, config |-> config, attrs |-> attrs, log |-> log, phase |-> phase]

NoAttrs == [n \in {} |-> << >>]

(***************************************************************************)
(* configuration_manager.py: ConfigManager.__init__                        *)
(***************************************************************************)
\* create_default_config: the write is not guarded, so a refused write raises
save_default_cfg(f, ds, log, default_config) ==
    IF CanWrite(f, ds)
    THEN [file |-> Written(f, default_config), config |-> default_config,
          log |-> Append(log, LogRec("PRINT", "Default configuration created")), st |-> "ok"]
    ELSE [file |-> f, config |-> NoneV, log |-> log, st |-> "raised"]

create_default_config_cfg(f, ds, log) == save_default_cfg(f, ds, log, default_config_cfg)

\* load_config: only FileNotFoundError and JSONDecodeError are caught, and the
\* second ends the process with sys.exit(1)
load_config_cfg(f, ds) ==
    IF ~f.exists
    THEN create_default_config_cfg(f, ds,
            <<LogRec("PRINT", "Configuration file not found"),
              LogRec("PRINT", "Creating default configuration")>>)
    ELSE IF ~f.readable
    THEN [file |-> f, config |-> NoneV, log |-> << >>, st |-> "raised"]
    ELSE IF ~Parses(f)
    THEN [file |-> f, config |-> NoneV,
          log |-> <<LogRec("PRINT", "Error parsing JSON")>>, st |-> "exited"]
    ELSE [file |-> f, config |-> f.tree,
          log |-> <<LogRec("PRINT", "Configuration loaded")>>, st |-> "ok"]

\* the keys setup_directories hands to get_path, in order
directories_cfg ==
    << <<"scripts">>, <<"output", "base">>, <<"output", "maps">>, <<"output", "timeseries">>,
       <<"output", "statistics">>, <<"output", "reports">>, <<"logs">>, <<"templates">> >>

\* for directory in directories: if directory: os.makedirs(directory, exist_ok=True)
RECURSIVE make_all_cfg(_, _, _)
make_all_cfg(list, ds, refused) ==
    IF list = << >> THEN [ok |-> TRUE, dirs |-> ds]
    ELSE IF Head(list).st # "ok" THEN make_all_cfg(Tail(list), ds, refused)
    ELSE LET m == makedirs(Head(list).s, ds, refused)
         IN  IF m.ok THEN make_all_cfg(Tail(list), m.dirs, refused) ELSE m

\* the list is built first: a get_path that raises leaves no directory made
make_list_cfg(list, ds, refused) ==
    IF \E i \in 1..Len(list) : list[i].st = "raise"
    THEN [ok |-> FALSE, dirs |-> ds]
    ELSE make_all_cfg(list, ds, refused)

setup_directories_cfg(config, ds, refused) ==
    make_list_cfg([i \in 1..Len(directories_cfg) |-> get_path_cfg(config, directories_cfg[i])],
                  ds, refused)

\* the level names getattr(logging, name) answers with a level
LogLevelNames == {"CRITICAL", "FATAL", "ERROR", "WARNING", "WARN", "INFO", "DEBUG", "NOTSET"}

\* setup_logging returns: Path(log_dir) needs a string, getattr(logging, level)
\* a level name, and logging.FileHandler an existing directory
logging_ok_cfg(log_dir, level, ds) ==
    /\ log_dir.st = "ok"
    /\ IsStr(level)
    /\ Len(level[<< >>].s) = 1
    /\ level[<< >>].s[1] \in LogLevelNames
    /\ DirExists(log_dir.s, ds)

setup_logging_cfg(config, ds) ==
    logging_ok_cfg(get_path_cfg(config, <<"logs">>),
                   get_cfg(config, <<"debug", "log_level">>, Str(<<"INFO">>)), ds)

\* __init__ from self.setup_logging() on: l is what load_config left, d what
\* setup_directories left
init_logging_cfg(l, d, log) ==
    IF ~setup_logging_cfg(l.config, d.dirs)
    THEN Outcome(l.file, d.dirs, l.config, NoAttrs, log, "raised")
    ELSE Outcome(l.file, d.dirs, l.config, NoAttrs,
                 Append(log, LogRec("INFO", "Logging initialized")), "ready")

\* __init__ after self.setup_directories()
init_directories_cfg(l, d) ==
    IF ~d.ok THEN Outcome(l.file, d.dirs, l.config, NoAttrs, l.log, "raised")
    ELSE init_logging_cfg(l, d, Append(l.log, LogRec("PRINT", "All directories created/verified")))

\* __init__ after self.config = self.load_config()
init_loaded_cfg(l, ds, refused) ==
    IF l.st # "ok" THEN Outcome(l.file, ds, l.config, NoAttrs, l.log, l.st)
    ELSE init_directories_cfg(l, setup_directories_cfg(l.config, ds, refused))

init_cfg(f, ds, refused) == init_loaded_cfg(load_config_cfg(f, ds), ds, refused)

(***************************************************************************)
(* json.dump and the mutators of configuration_manager.py                  *)
(***************************************************************************)
\* json.dump(tree, f) raises TypeError on an object it cannot encode
JsonSafe(tree) == \A p \in DOMAIN tree : tree[p].kind # "obj"

\* what json.load reads back from the text json.dump wrote: a tuple comes
\* back as a list
JsonForm(tree) ==
    [p \in DOMAIN tree |-> IF tree[p].kind = "tuple" THEN Node("list", tree[p].s) ELSE tree[p]]

\* the file after open(f, 'w') and json.dump(tree, f): the text is written
\* as it is encoded, so a TypeError leaves a truncated, malformed file
json_dump(f, tree) ==
    IF JsonSafe(tree) THEN Written(f, JsonForm(tree))
    ELSE FileRec(TRUE, f.readable, f.writable, "bad", NoneV)

\* the result of a mutator: st is "raised", or the value returned ("None",
\* "True", "False")
Mutated(st, config, f, log) == [st |-> st, config |-> config, file |-> f, log |-> log]

\* configuration_manager.py save_config: nothing is caught
save_config_cfg(f, ds, config, log) ==
    IF ~CanWrite(f, ds) THEN Mutated("raised", config, f, log)
    ELSE IF ~JsonSafe(config) THEN Mutated("raised", config, json_dump(f, config), log)
    ELSE Mutated("None", config, json_dump(f, config),
                 Append(log, LogRec("PRINT", "Configuration saved")))

\* config['analysis_period']['start_year'] = s; ...['end_year'] = e
set_period(config, s, e) ==
    SetItem(config, "analysis_period",
            SetItem(SetItem(Item(config, "analysis_period"), "start_year", s), "end_year", e))

\* configuration_manager.py update_analysis_period: the two stores raise
\* KeyError or TypeError unless config['analysis_period'] is a dict
update_analysis_period_cfg(f, ds, config, log, s, e) ==
    IF ~(IsDict(config) /\ HasKey(config, "analysis_period")
            /\ IsDict(Item(config, "analysis_period")))
    THEN Mutated("raised", config, f, log)
    ELSE save_config_cfg(f, ds, set_period(config, s, e), log)

(***************************************************************************)
(* config_manager_01.py: ConfigManager.__init__                            *)
(***************************************************************************)
\* a faulty create_default_config: the tree is returned from inside the try,
\* so a refused write leaves None
save_default_lost_01(f, ds, log, default_config) ==
    IF CanWrite(f, ds)
    THEN [file |-> Written(f, default_config), config |-> default_config,
          log |-> Append(log, LogRec("INFO", "Default configuration created"))]
    ELSE [file |-> f, config |-> NoneV,
          log |-> Append(log, LogRec("ERROR", "Could not save default config"))]

\* create_default_config: a refused write is logged and the tree still returned
save_default_01(f, ds, log, default_config) ==
    IF CanWrite(f, ds)
    THEN [file |-> Written(f, default_config), config |-> default_config,
          log |-> Append(log, LogRec("INFO", "Default configuration created"))]
    ELSE [file |-> f, config |-> default_config,
          log |-> Append(log, LogRec("ERROR", "Could not save default config"))]

create_default_config_01(f, ds, log) == save_default_01(f, ds, log, default_config_01)

\* the message load_config logs before it falls back to the defaults
load_error_01(f) ==
    IF ~f.exists THEN "Config file not found"
    ELSE IF ~f.readable THEN "Error loading config"
    ELSE "Error parsing JSON"

load_config_01(f, ds) ==
    IF f.exists /\ f.readable /\ Parses(f)
    THEN [file |-> f, config |-> f.tree, log |-> <<LogRec("INFO", "Configuration loaded")>>]
    ELSE create_default_config_01(f, ds, <<LogRec("ERROR", load_error_01(f))>>)

\* an entry of the directories list: usable is
\* "directory and isinstance(directory, (str, Path))"
DirEntryOfValue(v) == [usable |-> Truthy(v) /\ IsStr(v), s |-> v[<< >>].s]

DirEntryOfPath(r) == [usable |-> r.st = "ok", s |-> r.s]

\* the keys setup_directories hands to get_path: the output directories
\* (asked only when paths.output.base is set), then the other directories
output_keys_01 ==
    << <<"output", "maps">>, <<"output", "timeseries">>,
       <<"output", "statistics">>, <<"output", "reports">> >>

other_keys_01 == << <<"scripts">>, <<"logs">>, <<"templates">> >>

\* the results of get_path for a list of keys
paths_of_01(config, keys) == [i \in 1..Len(keys) |-> get_path_01(config, keys[i])]

IsUsable(e) == e.usable

\* the directories list from its parts
directories_of_01(base_dir, output_base, outputs, others) ==
    (IF Truthy(base_dir) THEN <<DirEntryOfValue(base_dir)>> ELSE << >>)
        \o (IF Truthy(output_base)
            THEN <<DirEntryOfValue(output_base)>> \o [i \in 1..Len(outputs) |-> DirEntryOfPath(outputs[i])]
            ELSE << >>)
        \o SelectSeq([i \in 1..Len(others) |-> DirEntryOfPath(others[i])], IsUsable)

\* the directories list setup_directories builds
directories_01(config) ==
    directories_of_01(get_01(config, <<"paths", "base_directory">>, NoneV),
                      get_01(config, <<"paths", "output", "base">>, NoneV),
                      paths_of_01(config, output_keys_01),
                      paths_of_01(config, other_keys_01))

\* the get_path calls of setup_directories, in the order they are made
path_calls_01(config) ==
    paths_of_01(config,
                (IF Truthy(get_01(config, <<"paths", "output", "base">>, NoneV))
                 THEN output_keys_01 ELSE << >>) \o other_keys_01)

RECURSIVE LogsOf(_)
LogsOf(calls) == IF calls = << >> THEN << >> ELSE Head(calls).log \o LogsOf(Tail(calls))

\* the creation loop: each failure is logged and the loop goes on
RECURSIVE make_all_01(_, _, _, _)
make_all_01(list, ds, refused, log) ==
    IF list = << >> THEN [dirs |-> ds, log |-> log]
    ELSE IF ~Head(list).usable
    THEN make_all_01(Tail(list), ds, refused,
                     Append(log, LogRec("WARNING", "Skipping invalid directory path")))
    ELSE LET m == makedirs(Head(list).s, ds, refused)
         IN  make_all_01(Tail(list), m.dirs, refused,
                         IF m.ok THEN log ELSE Append(log, LogRec("ERROR", "Error creating directory")))

directories_done_01(r) ==
    [dirs |-> r.dirs, log |-> Append(r.log, LogRec("INFO", "Directories setup complete"))]

setup_directories_01(config, ds, refused, log) ==
    directories_done_01(
        make_all_01(directories_01(config), ds, refused, log \o LogsOf(path_calls_01(config))))

init_directories_01(l, d) == Outcome(l.file, d.dirs, l.config, NoAttrs, d.log, "ready")

\* __init__ after self.config = self.load_config()
init_loaded_01(l, ds, refused) ==
    init_directories_01(l, setup_directories_01(l.config, ds, refused, l.log))

init_01(f, ds, refused) == init_loaded_01(load_config_01(f, ds), ds, refused)

(***************************************************************************)
(* The mutators of config_manager_01.py                                    *)
(***************************************************************************)
\* a faulty save_config: True is returned after the except branch too
save_config_true_01(f, ds, config, log) ==
    IF ~CanWrite(f, ds)
    THEN Mutated("True", config, f, Append(log, LogRec("ERROR", "Error saving config")))
    ELSE IF ~JsonSafe(config)
    THEN Mutated("True", config, json_dump(f, config),
                 Append(log, LogRec("ERROR", "Error saving config")))
    ELSE Mutated("True", config, json_dump(f, config),
                 Append(log, LogRec("INFO", "Configuration saved")))

\* save_config: every exception is caught and logged; True or False is
\* returned
save_config_01(f, ds, config, log) ==
    IF ~CanWrite(f, ds)
    THEN Mutated("False", config, f, Append(log, LogRec("ERROR", "Error saving config")))
    ELSE IF ~JsonSafe(config)
    THEN Mutated("False", config, json_dump(f, config),
                 Append(log, LogRec("ERROR", "Error saving config")))
    ELSE Mutated("True", config, json_dump(f, config),
                 Append(log, LogRec("INFO", "Configuration saved")))

\* if "analysis_period" not in self.config: self.config["analysis_period"] = {}
with_period_01(config) ==
    IF HasKey(config, "analysis_period") THEN config
    ELSE SetItem(config, "analysis_period", EmptyMap)

\* self.save_config() as a statement: what it returns is dropped
dropped_01(o) == Mutated("None", o.config, o.file, o.log)

\* update_analysis_period: the membership test and the stores are not
\* guarded; the result of save_config is not looked at
update_analysis_period_01(f, ds, config, log, s, e) ==
    IF ~IsDict(config) THEN Mutated("raised", config, f, log)
    ELSE IF ~IsDict(Item(with_period_01(config), "analysis_period"))
    THEN Mutated("raised", config, f, log)
    ELSE dropped_01(save_config_01(f, ds, set_period(with_period_01(config), s, e), log))

(***************************************************************************)
(* config_manager.py: ConfigManager.__init__                               *)
(***************************************************************************)
\* _save_default_config: parent.mkdir(parents=True, exist_ok=True), then the
\* write; every exception is caught and logged
\* m is what the mkdir of the parent left
write_default_cm(f, m, config, log) ==
    IF m.ok /\ CanWrite(f, m.dirs)
    THEN [file |-> Written(f, config), dirs |-> m.dirs, config |-> config,
          log |-> Append(log, LogRec("INFO", "Created default configuration"))]
    ELSE [file |-> f, dirs |-> m.dirs, config |-> config,
          log |-> Append(log, LogRec("ERROR", "Error saving default config"))]

save_default_config_cm(f, ds, refused, config, log) ==
    write_default_cm(f, makedirs(ConfigDir, ds, refused), config, log)

\* w laid over v at every depth: an entry of v stays where w has mappings
\* (or nothing) above it
DeepOver(v, w) ==
    [p \in DOMAIN w \cup
            {q \in DOMAIN v : \A i \in 0..Len(q) :
                SubSeq(q, 1, i) \in DOMAIN w => w[SubSeq(q, 1, i)].kind = "map"} |->
        IF p \in DOMAIN w THEN w[p] ELSE v[p]]

\* a faulty merge: mappings are merged at every depth
merge_item_deep_cm(config, key, user_config) ==
    IF HasKey(config, key) /\ IsDict(Item(config, key)) /\ IsDict(Item(user_config, key))
    THEN SetItem(config, key, DeepOver(Item(config, key), Item(user_config, key)))
    ELSE SetItem(config, key, Item(user_config, key))

\* a faulty merge: the user's value replaces the default's at the top level
merge_item_replace_cm(config, key, user_config) == SetItem(config, key, Item(user_config, key))

\* the body of the merge loop, for one item of user_config
merge_item_cm(config, key, user_config) ==
    IF HasKey(config, key) /\ IsDict(Item(config, key)) /\ IsDict(Item(user_config, key))
    THEN SetItem(config, key, DictUpdate(Item(config, key), Item(user_config, key)))
    ELSE SetItem(config, key, Item(user_config, key))

\* the merge loop of _load_config over user_config.items()
RECURSIVE merge_cm(_, _, _)
merge_cm(config, user_config, ks) ==
    IF ks = {} THEN config
    ELSE merge_cm(merge_item_cm(config, CHOOSE x \in ks : TRUE, user_config),
                  user_config, ks \ {CHOOSE x \in ks : TRUE})

\* the user's file is read, parses to a non-empty mapping and is merged
Merges(f) == f.exists /\ f.readable /\ f.syn = "doc" /\ Truthy(f.tree) /\ IsDict(f.tree)

\* what _load_config logs before it falls back to the defaults: nothing for
\* a missing file, a warning for an empty one, an error for every exception
\* (an unreadable or malformed file, a document with no .items())
load_log_cm(f) ==
    IF ~f.exists THEN << >>
    ELSE IF ~f.readable \/ f.syn = "bad" THEN <<LogRec("ERROR", "Error loading config file")>>
    ELSE IF f.syn = "empty" \/ ~Truthy(f.tree) THEN <<LogRec("WARNING", "Config file is empty")>>
    ELSE <<LogRec("ERROR", "Error loading config file")>>

load_with_default_cm(f, ds, refused, default_config) ==
    IF Merges(f)
    THEN [file |-> f, dirs |-> ds,
          config |-> merge_cm(default_config, f.tree, Keys(f.tree)),
          log |-> <<LogRec("INFO", "Loaded configuration")>>]
    ELSE save_default_config_cm(f, ds, refused, default_config, load_log_cm(f))

\* _load_config: [file, dirs, config, log]
load_config_cm(f, ds, refused, today) ==
    load_with_default_cm(f, ds, refused, default_config_cm(today))

\* the attributes _setup_paths sets, in order, each with the keys it indexes
\* below config['paths'] (none for data_dir, which joins the literal 'data')
path_attrs_cm ==
    << [name |-> "data_dir",            key |-> << >>],
       [name |-> "era5_raw_dir",        key |-> <<"data", "era5_raw">>],
       [name |-> "era5_processed_dir",  key |-> <<"data", "era5_processed">>],
       [name |-> "wind_data_path",      key |-> <<"data", "wind_data">>],
       [name |-> "lake_shapefile_path", key |-> <<"data", "lake_shapefile">>],
       [name |-> "output_dir",          key |-> <<"output", "base">>],
       [name |-> "maps_dir",            key |-> <<"output", "maps">>],
       [name |-> "timeseries_dir",      key |-> <<"output", "timeseries">>],
       [name |-> "statistics_dir",      key |-> <<"output", "statistics">>],
       [name |-> "reports_dir",         key |-> <<"output", "reports">>],
       [name |-> "clustering_dir",      key |-> <<"output", "clustering">>],
       [name |-> "validation_dir",      key |-> <<"output", "validation">>],
       [name |-> "scripts_dir",         key |-> <<"scripts">>],
       [name |-> "templates_dir",       key |-> <<"templates">>],
       [name |-> "logs_dir",            key |-> <<"logs">>] >>

\* x[k1][k2]... : defined when every index is a key of a dict
RECURSIVE Indexable(_, _)
Indexable(v, keys) ==
    IF keys = << >> THEN TRUE
    ELSE IsDict(v) /\ HasKey(v, Head(keys)) /\ Indexable(Item(v, Head(keys)), Tail(keys))

RECURSIVE Index(_, _)
Index(v, keys) == IF keys = << >> THEN v ELSE Index(Item(v, Head(keys)), Tail(keys))

\* paths[k1][k2] is there and is a string
StrAt(paths, key) == Indexable(paths, key) /\ IsStr(Index(paths, key))

\* _setup_paths returns: every index exists and every operand of Path(..) and
\* of base_dir / .. is a string
setup_paths_ok_cm(config) ==
    /\ Indexable(config, <<"paths", "base_directory">>)
    /\ IsStr(Index(config, <<"paths", "base_directory">>))
    /\ \A i \in 1..Len(path_attrs_cm) :
          path_attrs_cm[i].key = << >> \/ StrAt(Item(config, "paths"), path_attrs_cm[i].key)

\* the text joined to base_dir for one attribute
relative_cm(paths, key) == IF key = << >> THEN <<"data">> ELSE Index(paths, key)[<< >>].s

\* the attributes of _setup_paths, as str(path)
path_attrs_of_cm(paths, base_dir) ==
    [n \in {path_attrs_cm[i].name : i \in 1..Len(path_attrs_cm)} \cup {"base_dir"} |->
        IF n = "base_dir" THEN StrPath(base_dir)
        ELSE StrPath(JoinPath(base_dir,
                ParsePath(relative_cm(paths,
                    path_attrs_cm[CHOOSE i \in 1..Len(path_attrs_cm) : path_attrs_cm[i].name = n].key))))]

setup_paths_cm(config) ==
    path_attrs_of_cm(Item(config, "paths"),
                     ParsePath(Index(config, <<"paths", "base_directory">>)[<< >>].s))

\* the attributes _create_directories creates, in order
directories_cm ==
    <<"data_dir", "era5_raw_dir", "era5_processed_dir", "output_dir", "maps_dir",
      "timeseries_dir", "statistics_dir", "reports_dir", "clustering_dir",
      "validation_dir", "logs_dir">>

\* directory.mkdir(parents=True, exist_ok=True) for each: the first failure raises
RECURSIVE make_all_cm(_, _, _)
make_all_cm(list, ds, refused) ==
    IF list = << >> THEN [ok |-> TRUE, dirs |-> ds]
    ELSE LET m == makedirs(Head(list), ds, refused)
         IN  IF m.ok THEN make_all_cm(Tail(list), m.dirs, refused) ELSE m

create_directories_cm(attrs, ds, refused) ==
    make_all_cm([i \in 1..Len(directories_cm) |-> attrs[directories_cm[i]]], ds, refused)

\* __init__ from its last two logger.info calls on; the second reads
\* self.config['project']['name']
init_report_cm(l, a, d, log) ==
    IF ~Indexable(l.config, <<"project", "name">>)
    THEN Outcome(l.file, d.dirs, l.config, a, log, "raised")
    ELSE Outcome(l.file, d.dirs, l.config, a, Append(log, LogRec("INFO", "Project")), "ready")

\* __init__ after self._create_directories()
init_directories_cm(l, a, d) ==
    IF ~d.ok THEN Outcome(l.file, d.dirs, l.config, a, l.log, "raised")
    ELSE init_report_cm(l, a, d,
            l.log \o <<LogRec("INFO", "Created all necessary directories"),
                       LogRec("INFO", "Configuration loaded from")>>)

\* __init__ after self._setup_paths()
init_paths_cm(l, a, refused) ==
    init_directories_cm(l, a, create_directories_cm(a, l.dirs, refused))

\* __init__ after self.config = self._load_config()
init_loaded_cm(l, refused) ==
    IF ~setup_paths_ok_cm(l.config)
    THEN Outcome(l.file, l.dirs, l.config, NoAttrs, l.log, "raised")
    ELSE init_paths_cm(l, setup_paths_cm(l.config), refused)

init_cm(f, ds, refused, today) == init_loaded_cm(load_config_cm(f, ds, refused, today), refused)

\* _get_default_config_path: the locations tried, in order (the last is
\* Path(__file__).parent.parent / 'config' / 'kariba_config.yaml')
possible_paths ==
    << <<"config", "/", "kariba_config.yaml">>,
       <<"..", "/", "config", "/", "kariba_config.yaml">>,
       <<"/", "home", "/", "chawas", "/", "deployed", "/", "charara", "/", "config", "/",
         "kariba_config.yaml">>,
       <<"__file__", "/", "..", "/", "..", "/", "config", "/", "kariba_config.yaml">> >>

default_path == <<"config", "/", "kariba_config.yaml">>

\* a faulty scan: the last existing location wins
RECURSIVE last_existing(_, _)
last_existing(paths, present) ==
    IF paths = << >> THEN default_path
    ELSE IF paths[Len(paths)] \in present THEN paths[Len(paths)]
    ELSE last_existing(SubSeq(paths, 1, Len(paths) - 1), present)

\* for path in possible_paths: if path.exists(): return path
RECURSIVE first_existing(_, _)
first_existing(paths, present) ==
    IF paths = << >> THEN default_path
    ELSE IF Head(paths) \in present THEN Head(paths)
    ELSE first_existing(Tail(paths), present)

\* __init__ with config_file=None, after default_path.parent.mkdir(parents=True,
\* exist_ok=True), which is not guarded; m is what it left
init_at_default_path_cm(m, f, ds, refused, today) ==
    IF ~m.ok THEN Outcome(f, m.dirs, NoneV, NoAttrs, << >>, "raised")
    ELSE init_cm(f, m.dirs, refused, today)

\* __init__ with config_file=None: the backing file f is the one at the
\* location chosen; the working directory is the parent of ConfigDir
init_unnamed_cm(present, f, ds, refused, today) ==
    IF \E i \in 1..Len(possible_paths) : possible_paths[i] \in present
    THEN init_cm(f, ds, refused, today)
    ELSE init_at_default_path_cm(makedirs(ConfigDir, ds, refused), f, ds, refused, today)

(***************************************************************************)
(* The inputs: the user's files, the directory trees and the keys asked    *)
(***************************************************************************)
Variants == {"configuration_manager", "config_manager_01", "config_manager"}

\* the tokens of the enumerated path strings
PathAlphabet == {"/", ".", "a"}

\* every path string of at most MaxPathLen tokens, the empty string included
PathStrings == UNION {[1..n -> PathAlphabet] : n \in 0..MaxPathLen}

\* what a file may give for paths.base_directory
BaseValues ==
    {Str(<< >>), Str(<<"b">>), Str(<<"/", "b">>), Str(<<"/", "b", "/">>), Num("5")}

\* files whose "scripts" entry is the path string P; "logs" lets the
\* constructor of configuration_manager.py reach its end
PathDocWithBase(B, P) ==
    MapOf([paths |-> MapOf([base_directory |-> B]), scripts |-> Str(P), logs |-> Str(<<"logs">>)])

PathDocNoBase(P) == MapOf([scripts |-> Str(P), logs |-> Str(<<"logs">>)])

PathDocs ==
    {PathDocWithBase(B, P) : B \in BaseValues, P \in PathStrings}
        \cup {PathDocNoBase(P) : P \in PathStrings}

\* files that differ from the defaults in their shape
ShapeDocs ==
    { MapOf([analysis_period |-> MapOf([start_year |-> Num("2018")])]),
      MapOf([paths |-> MapOf([data |-> MapOf([wind_data |-> Str(<<"x.nc">>)])])]),
      MapOf([paths |-> MapOf([output |-> MapOf([maps |-> Str(<<"/", "srv", "/", "maps">>)])])]),
      MapOf([paths |-> Str(<<"nowhere">>)]),
      MapOf([project |-> Str(<<"kariba">>)]),
      MapOf([project |-> MapOf([name |-> NoneV]), extra |-> MapOf([k |-> Num("0")])]),
      MapOf([paths |-> MapOf([base_directory |-> Str(<<"proj">>), logs |-> Str(<<"var", "/", "log">>)]),
             logs |-> Str(<<"var", "/", "log">>),
             debug |-> MapOf([log_level |-> Str(<<"DEBUG">>)])]),
      MapOf([logs |-> Str(<<"/", "var", "/", "log">>),
             debug |-> MapOf([log_level |-> Str(<<"verbose">>)])]),
      EmptyMap,
      List(<<"a", "b">>),
      NoneV,
      default_config_cfg,
      default_config_01 }

\* the directory holding the backing file, with its ancestors
ConfigDirs == {<<"/", "tmp">>, <<"/", "tmp", "/", "proj">>, ConfigDir}

\* the sets of directories whose creation is refused
RefusedSets ==
    { {},
      {<<"/", "home">>, <<"/", "b">>, <<"logs">>},
      {HomeBase \o <<"/", "output">>, HomeBase \o <<"/", "logs">>, ConfigDir} }

\* the backing files of the initial states, with the directories that exist
InitialFiles ==
    \* no file; its directory may be missing too
    {[file |-> FileRec(FALSE, TRUE, w, "empty", NoneV), dirs |-> ds, refused |-> r] :
        w \in BOOLEAN, ds \in {{}, ConfigDirs}, r \in RefusedSets}
    \* a file that cannot be read, is malformed or is empty
    \cup {[file |-> FileRec(TRUE, rd, w, syn, NoneV), dirs |-> ConfigDirs, refused |-> r] :
        rd \in BOOLEAN, w \in BOOLEAN, syn \in {"bad", "empty"}, r \in RefusedSets}
    \* a file that parses
    \cup {[file |-> FileRec(TRUE, TRUE, w, "doc", doc), dirs |-> ConfigDirs, refused |-> r] :
        w \in BOOLEAN, doc \in ShapeDocs, r \in RefusedSets}
    \cup {[file |-> FileRec(TRUE, TRUE, TRUE, "doc", doc), dirs |-> ConfigDirs, refused |-> {}] :
        doc \in PathDocs}

\* the backing files tried with config_file=None
UnnamedFiles == {i \in InitialFiles : i.file.syn # "doc" \/ i.file.tree \in ShapeDocs}

\* the sets of candidate locations that hold a file
PresentSets ==
    { {}, {possible_paths[1]}, {possible_paths[2], possible_paths[4]},
      {possible_paths[3]}, {possible_paths[1], possible_paths[3]}, {possible_paths[4]} }

\* the days datetime.now() may fall on
Days == {"2026-01-01", "2026-01-02"}

\* the keys handed to get and get_path
AskedKeys ==
    { <<"scripts">>, <<"logs">>, <<"nokey">>, <<"paths">>,
      <<"paths", "base_directory">>, <<"paths", "output", "maps">>, <<"output", "maps">>,
      <<"paths", "data", "era5_raw">>, <<"paths", "logs", "deeper">>,
      <<"analysis_period", "start_year">>, <<"analysis_period", "end_year">>,
      <<"project", "name">>, <<"extra", "k">> }

\* the defaults handed to get
AskedDefaults == {NoneV, Str(<<"fallback">>)}

\* the years handed to update_analysis_period
StartYears == {Num("2018"), Num("2015"), Tuple(<<"2018">>), Obj("int64(2018)")}

EndYears == {Num("2021"), Num("2020")}

(***************************************************************************)
(* The launchers and the GitHub setup script                               *)
(***************************************************************************)
\* One run of a script: what it finds (the interpreter of the virtual
\* environment, the analysis script, the project directory, an existing .git,
\* a configured e-mail, the answer typed at its y/n prompt), where it stands,
\* its child process and the child's exit code, the lines it printed, the
\* commands that failed, and, once pc is "done", its own exit code
RunOf(script, venv, target, project, git, email, answer) ==
    [script |-> script, venv |-> venv, target |-> target, project |-> project,
     git |-> git, email |-> email, answer |-> answer,
     pc |-> "start", step |-> 1, child |-> "none", code |-> 0,
     out |-> << >>, failed |-> {}, exit |-> 0]

\* no script runs
NoRun == [RunOf("none", FALSE, FALSE, FALSE, FALSE, FALSE, "n") EXCEPT !.pc = "idle"]

\* print(line)
printed(r, mark, line) == [r EXCEPT !.out = Append(@, <<mark, line>>)]

\* the process ends with an exit code: sys.exit(code), or a traceback (1)
ended(r, code, line) == [printed(r, IF code = 0 THEN "ok" ELSE "fail", line)
                            EXCEPT !.pc = "done", !.exit = code]

\* run_analysis_terminal.py with a missing analysis script taken for a success
main_terminal_lenient(r, ev) ==
    CASE r.pc = "start" ->
            IF ~r.venv THEN ended(r, 1, "Virtual environment not found")
            ELSE IF ~r.target THEN ended(r, 0, "Analysis script not found")
            ELSE IF ~r.project THEN ended(r, 1, "FileNotFoundError")
            ELSE IF ev.kind = "OSError" THEN ended(r, 1, "Error")
            ELSE [r EXCEPT !.pc = "child", !.child = "running"]
      [] r.pc = "child" ->
            IF ev.kind = "interrupt" THEN ended([r EXCEPT !.child = "interrupted"], 1, "Interrupted")
            ELSE IF ev.code = 0
                 THEN ended([r EXCEPT !.child = "exited", !.code = ev.code], 0, "ANALYSIS COMPLETED!")
                 ELSE ended([r EXCEPT !.child = "exited", !.code = ev.code], 1, "ANALYSIS FAILED")

\* run_analysis_terminal.py; ev is what happens next: the child is spawned
\* or not, exits with ev.code, or the user interrupts
main_terminal(r, ev) ==
    CASE r.pc = "start" ->
            IF ~r.venv THEN ended(r, 1, "Virtual environment not found")
            ELSE IF ~r.target THEN ended(r, 1, "Analysis script not found")
            \* os.chdir stands before the try
            ELSE IF ~r.project THEN ended(r, 1, "FileNotFoundError")
            ELSE IF ev.kind = "OSError" THEN ended(r, 1, "Error")
            ELSE [r EXCEPT !.pc = "child", !.child = "running"]
      [] r.pc = "child" ->
            IF ev.kind = "interrupt" THEN ended([r EXCEPT !.child = "interrupted"], 1, "Interrupted")
            ELSE IF ev.code = 0
                 THEN ended([r EXCEPT !.child = "exited", !.code = ev.code], 0, "ANALYSIS COMPLETED!")
                 ELSE ended([r EXCEPT !.child = "exited", !.code = ev.code], 1, "ANALYSIS FAILED")

\* run_analysis_05.py handing on the exit code of its child as it is
run_analysis_05_verbatim(r, ev) ==
    CASE r.pc = "start" ->
            IF ~r.project THEN ended(r, 1, "FileNotFoundError")
            ELSE IF ~r.venv THEN ended(r, 1, "Virtual environment Python not found")
            ELSE IF ~r.target THEN ended(r, 1, "Analysis script not found")
            ELSE IF ev.kind = "OSError" THEN ended(r, 1, "ERROR")
            ELSE [r EXCEPT !.pc = "child", !.child = "running"]
      [] r.pc = "child" ->
            IF ev.kind = "interrupt"
            THEN ended([r EXCEPT !.child = "interrupted"], 1, "Analysis interrupted by user")
            ELSE ended([r EXCEPT !.child = "exited", !.code = ev.code], ev.code, "exit code")

\* run_analysis_05.py: __main__ changes to the project directory, then
\* run_analysis starts the child with Popen and waits for it
run_analysis_05(r, ev) ==
    CASE r.pc = "start" ->
            IF ~r.project THEN ended(r, 1, "FileNotFoundError")
            ELSE IF ~r.venv THEN ended(r, 1, "Virtual environment Python not found")
            ELSE IF ~r.target THEN ended(r, 1, "Analysis script not found")
            ELSE IF ev.kind = "OSError" THEN ended(r, 1, "ERROR")
            ELSE [r EXCEPT !.pc = "child", !.child = "running"]
      [] r.pc = "child" ->
            IF ev.kind = "interrupt"
            THEN ended([r EXCEPT !.child = "interrupted"], 1, "Analysis interrupted by user")
            ELSE IF ev.code = 0
                 THEN ended([r EXCEPT !.child = "exited", !.code = ev.code], 0, "ANALYSIS COMPLETED SUCCESSFULLY!")
                 ELSE ended([r EXCEPT !.child = "exited", !.code = ev.code], 1, "Analysis failed with exit code")

\* the names that the imports of run_analysis_03.py bind; those of
\* run_analysis_04.py bind the same
names_03 ==
    {"matplotlib", "plt", "np", "xr", "ccrs", "cfeature", "gpd", "pd", "os", "sys",
     "datetime", "Path"}

\* check_imports of run_analysis_03.py: the program it hands to the
\* interpreter holds a return outside a function, so the child exits nonzero,
\* subprocess.run(check=True) raises CalledProcessError and the check is
\* False whatever is installed
check_imports(r) == FALSE

\* run_analysis_03.py: main asks before it creates a missing virtual
\* environment and before it installs packages; creating the environment,
\* checking the packages and starting the analysis all go through
\* subprocess.run, and an exception of main ends the process with 1
main_03(r, ev) ==
    CASE r.pc = "start" ->
            IF ~r.venv /\ r.answer # "y"
            THEN ended(r, 1, "Cannot proceed without virtual environment.")
            ELSE IF "subprocess" \notin names_03
            THEN ended(r, 1, "Unexpected error: name 'subprocess' is not defined")
            ELSE IF ~check_imports(r) /\ r.install # "y"
            THEN ended(r, 1, "Cannot proceed without required packages.")
            ELSE IF ~check_imports(r)
            THEN ended(r, 1, "Still missing required packages.")
            ELSE IF ~r.target THEN ended(r, 1, "Analysis script not found")
            ELSE IF ev.kind = "OSError" THEN ended(r, 1, "Error running analysis")
            ELSE [r EXCEPT !.pc = "child", !.child = "running"]
      [] r.pc = "child" ->
            IF ev.kind = "interrupt"
            THEN ended([r EXCEPT !.child = "interrupted"], 1, "Analysis interrupted by user.")
            ELSE IF ev.code = 0
                 THEN ended([r EXCEPT !.child = "exited", !.code = ev.code], 0, "WIND ANALYSIS COMPLETE!")
                 ELSE ended([r EXCEPT !.child = "exited", !.code = ev.code], 1, "Analysis had issues.")

\* run_with_virtual_env of run_analysis_04.py up to subprocess.run, whose
\* NameError the function's own handler catches
run_with_virtual_env(r, ev) ==
    IF ~r.venv THEN ended(r, 1, "Virtual environment Python not found")
    ELSE IF ~r.target THEN ended(r, 1, "Analysis script not found")
    ELSE IF "subprocess" \notin names_03
    THEN ended(r, 1, "Error running analysis: name 'subprocess' is not defined")
    ELSE IF ev.kind = "OSError" THEN ended(r, 1, "Error running analysis")
    ELSE [r EXCEPT !.pc = "child", !.child = "running"]

\* run_analysis_04.py with choice 3 running both methods whatever the first gave
main_run_04_both(r, ev) ==
    CASE r.pc = "start" ->
            IF ~r.venv /\ r.answer # "y"
            THEN ended(r, 1, "Cannot proceed without virtual environment.")
            ELSE IF ~r.venv /\ "subprocess" \notin names_03
            THEN ended(r, 1, "Unexpected error: name 'subprocess' is not defined")
            ELSE IF r.choice = "1"
            THEN ended([r EXCEPT !.methods = <<"direct">>], IF r.target /\ r.direct THEN 0 ELSE 1,
                       "direct method")
            ELSE IF r.choice = "3"
            THEN run_with_virtual_env([r EXCEPT !.venv = TRUE, !.methods = <<"direct", "venv">>], ev)
            ELSE run_with_virtual_env([r EXCEPT !.venv = TRUE, !.methods = <<"venv">>], ev)
      [] r.pc = "child" ->
            IF ev.kind = "interrupt"
            THEN ended([r EXCEPT !.child = "interrupted"], 1, "Interrupted by user")
            ELSE IF ev.code = 0
                 THEN ended([r EXCEPT !.child = "exited", !.code = ev.code], 0, "ANALYSIS COMPLETED SUCCESSFULLY!")
                 ELSE ended([r EXCEPT !.child = "exited", !.code = ev.code], 1, "ANALYSIS FAILED")

\* run_analysis_04.py: main asks before it creates a missing virtual
\* environment, then asks for the method: r.direct says whether the analysis
\* imported and run in this process would succeed, r.methods lists the
\* methods that ran; an exception of main ends the process with 1
main_run_04(r, ev) ==
    CASE r.pc = "start" ->
            IF ~r.venv /\ r.answer # "y"
            THEN ended(r, 1, "Cannot proceed without virtual environment.")
            ELSE IF ~r.venv /\ "subprocess" \notin names_03
            THEN ended(r, 1, "Unexpected error: name 'subprocess' is not defined")
            ELSE IF r.choice = "1"
            THEN ended([r EXCEPT !.methods = <<"direct">>], IF r.target /\ r.direct THEN 0 ELSE 1,
                       "direct method")
            ELSE IF r.choice = "3" /\ r.target /\ r.direct
            THEN ended([r EXCEPT !.methods = <<"direct">>], 0, "direct method")
            ELSE IF r.choice = "3"
            THEN run_with_virtual_env([r EXCEPT !.venv = TRUE, !.methods = <<"direct", "venv">>], ev)
            ELSE run_with_virtual_env([r EXCEPT !.venv = TRUE, !.methods = <<"venv">>], ev)
      [] r.pc = "child" ->
            IF ev.kind = "interrupt"
            THEN ended([r EXCEPT !.child = "interrupted"], 1, "Interrupted by user")
            ELSE IF ev.code = 0
                 THEN ended([r EXCEPT !.child = "exited", !.code = ev.code], 0, "ANALYSIS COMPLETED SUCCESSFULLY!")
                 ELSE ended([r EXCEPT !.child = "exited", !.code = ev.code], 1, "ANALYSIS FAILED")

\* the git commands that main of setup_existing_github_04.py hands to
\* run_command, in order
commands(r) ==
    (IF r.git THEN << >> ELSE <<"git init">>)
    \o <<"git config user.name">>
    \o (IF r.email THEN << >> ELSE <<"git config user.email">>)
    \o <<"git add .", "git commit", "git remote add origin", "git branch -M main",
         "git push -u origin main">>
    \o (IF r.answer = "y" THEN <<"git add .github/", "git commit workflow", "git push">>
        ELSE << >>)

\* run_command(cmd), where ok says that the command exits with 0: main reads
\* the result of the first push alone, and uses it for a message
run_command(r, cmd, ok) ==
    IF ok THEN [printed(r, "ok", cmd) EXCEPT !.step = @ + 1]
    ELSE [(IF cmd = "git push -u origin main"
           THEN printed(printed(r, "fail", cmd), "info", "Push failed. Common issues:")
           ELSE printed(r, "fail", cmd))
            EXCEPT !.step = @ + 1, !.failed = @ \cup {cmd}]

\* setup_existing_github_04.py, steps 2 and 3, which stand before git add:
\* both files are opened with "w" and written, whether or not they exist.
\* A file is "absent", holds the "user" text or holds the text of the "script".
written_04(r) == [r EXCEPT !.gitignore = "script", !.readme = "script"]

\* setup_existing_github_02.py: create_gitignore returns when the file exists,
\* and generate_github_files writes README.md only if it does not exist
written_02(r) ==
    [r EXCEPT !.pc = "done",
              !.gitignore = IF r.gitignore # "absent" THEN r.gitignore ELSE "script",
              !.readme = IF r.readme # "absent" THEN r.readme ELSE "script"]

\* setup_existing_github_03.py: .gitignore is written only if it does not
\* exist; the source ends before README.md is written
written_03(r) ==
    [r EXCEPT !.pc = "done",
              !.gitignore = IF r.gitignore # "absent" THEN r.gitignore ELSE "script"]

\* setup_existing_github_04.py: main changes to the project directory and runs
\* its commands one after the other; when it returns, the script falls off its
\* end; an exception or an interrupt ends it with sys.exit(1)
main_04(r, ev) ==
    CASE r.pc = "start" ->
            IF ~r.project THEN ended(r, 1, "Error: No such file or directory")
            ELSE [r EXCEPT !.pc = "git"]
      [] r.pc = "git" ->
            IF ev.kind = "interrupt" THEN ended(r, 1, "Setup cancelled.")
            ELSE IF r.step <= Len(commands(r))
            THEN run_command(IF commands(r)[r.step] = "git add ." THEN written_04(r) ELSE r,
                             commands(r)[r.step], ev.code = 0)
            ELSE ended(r, 0, "SETUP COMPLETE!")

\* the script that runs
main(r, ev) ==
    CASE r.script = "run_analysis_terminal"    -> main_terminal(r, ev)
      [] r.script = "run_analysis_05"          -> run_analysis_05(r, ev)
      [] r.script = "run_analysis_03"          -> main_03(r, ev)
      [] r.script = "run_analysis_04"          -> main_run_04(r, ev)
      [] r.script = "setup_existing_github_04" -> main_04(r, ev)

\* what can happen to a script that waits
Event(kind, code) == [kind |-> kind, code |-> code]

Launchers == {"run_analysis_terminal", "run_analysis_05", "run_analysis_03", "run_analysis_04"}

\* the exit codes of a child: success, failures, and death by a signal
ChildCodes == {0, 1, 2, 127, -9}

\* the runs that are checked: the analysis script lies in the project
\* directory; run_analysis_03.py and run_analysis_04.py also find whether the
\* packages can be imported in the virtual environment and whether the direct
\* method would succeed, and are told the answer to the install prompt and
\* the method chosen
Runs ==
    {RunOf(s, v, t, p, FALSE, FALSE, a) :
        s \in {"run_analysis_terminal", "run_analysis_05"},
        v \in BOOLEAN, t \in BOOLEAN, p \in BOOLEAN, a \in {"y", "n"}}
    \cup {[packages |-> k, install |-> i, choice |-> "2", direct |-> FALSE, methods |-> << >>]
              @@ RunOf("run_analysis_03", v, t, t, FALSE, FALSE, a) :
             k \in BOOLEAN, i \in {"y", "n"}, v \in BOOLEAN, t \in BOOLEAN, a \in {"y", "n"}}
    \cup {[packages |-> TRUE, install |-> "n", choice |-> c, direct |-> d, methods |-> << >>]
              @@ RunOf("run_analysis_04", v, t, t, FALSE, FALSE, a) :
             c \in {"1", "2", "3", ""}, d \in BOOLEAN, v \in BOOLEAN, t \in BOOLEAN,
             a \in {"y", "n"}}
    \cup {[gitignore0 |-> i, gitignore |-> i, readme0 |-> m, readme |-> m]
              @@ RunOf("setup_existing_github_04", FALSE, FALSE, p, g, e, a) :
             i \in {"absent", "user"}, m \in {"absent", "user"},
             p \in BOOLEAN, g \in BOOLEAN, e \in BOOLEAN, a \in {"y", "n"}}

\* how push_to_github ends: what it printed, the commands it ran, the return
\* code of the push and the value it returns
pushed(r, code, value) ==
    [r EXCEPT !.pc = "done", !.code = code, !.result = value,
              !.ran = (IF r.branch # "main" THEN <<"git branch -M main">> ELSE << >>)
                          \o <<"git push -u origin main">>,
              !.failed = IF code = 0 THEN {} ELSE {"git push -u origin main"}]

\* push_to_github of setup_existing_github_02.py with a result that follows
\* the text of git's error
push_to_github_by_text(r, rename, code) ==
    IF r.branch # "main" /\ rename # 0
    THEN [printed(r, "fail", "Error pushing to GitHub") EXCEPT
            !.pc = "done", !.result = "False", !.ran = <<"git branch -M main">>,
            !.failed = {"git branch -M main"}]
    ELSE IF code = 0
    THEN pushed(printed(r, "ok", "Successfully pushed to GitHub!"), code, "True")
    ELSE IF r.stderr = "Permission denied"
    THEN pushed(printed(printed(r, "fail", "Push failed"), "info", "SSH Permission denied. Try:"),
                code, "False")
    ELSE pushed(printed(r, "fail", "Push failed"), code, "True")

\* push_to_github of setup_existing_github_02.py on the branch r.branch, where
\* rename is the exit code of git branch -M main (run with check=True), code
\* that of git push -u origin main, and r.stderr what the push wrote
push_to_github(r, rename, code) ==
    IF r.branch # "main" /\ rename # 0
    THEN [printed(r, "fail", "Error pushing to GitHub") EXCEPT
            !.pc = "done", !.result = "False", !.ran = <<"git branch -M main">>,
            !.failed = {"git branch -M main"}]
    ELSE IF code = 0
    THEN pushed(printed(r, "ok", "Successfully pushed to GitHub!"), code, "True")
    ELSE IF r.stderr = "Permission denied"
    THEN pushed(printed(printed(r, "fail", "Push failed"), "info", "SSH Permission denied. Try:"),
                code, "False")
    ELSE pushed(printed(r, "fail", "Push failed"), code, "False")

\* what a method that is called alone finds besides the findings of a run
CallOf(script, more) ==
    more @@ [RunOf(script, FALSE, FALSE, TRUE, TRUE, TRUE, "y") EXCEPT !.pc = "call"]

\* the branches and the error texts that push_to_github is tried with
Branches == {"main", "master", ""}

ErrorTexts == {"", "Permission denied", "remote: Repository not found."}

\* the most get_config calls of one process
MaxCalls == 3

\* the config_file arguments handed to get_config
ConfigFileArgs == {"None", "config.json", "other.json"}

\* get_config that constructs again when it is given a path
get_config_by_path(r, arg, phase) ==
    IF r.singleton = 0 \/ arg # "None"
    THEN [r EXCEPT !.step = @ + 1, !.asked = arg, !.built = @ + 1,
                   !.singleton = IF phase = "ready" THEN r.built + 1 ELSE r.singleton,
                   !.result = IF phase = "ready" THEN r.built + 1 ELSE 0,
                   !.pc = IF phase = "exited" THEN "done" ELSE "call"]
    ELSE [r EXCEPT !.step = @ + 1, !.asked = arg, !.result = r.singleton]

\* get_config(config_file) of configuration_manager.py: r.singleton is the
\* module's _config_manager (0 for None, else the number of the instance),
\* r.built counts the ConfigManager objects made, r.result is what the call
\* returned (0 when it raised), and phase is how ConfigManager(config_file)
\* would end
get_config(r, arg, phase) ==
    IF r.singleton = 0
    THEN [r EXCEPT !.step = @ + 1, !.asked = arg, !.built = @ + 1,
                   !.singleton = IF phase = "ready" THEN r.built + 1 ELSE 0,
                   !.result = IF phase = "ready" THEN r.built + 1 ELSE 0,
                   !.pc = IF phase = "exited" THEN "done" ELSE "call"]
    ELSE [r EXCEPT !.step = @ + 1, !.asked = arg, !.result = r.singleton]

\* the characters of str.isalnum and of str.isdigit that are used
Digits == {"0", "1", "2", "3", "4", "5", "6", "7", "8", "9"}

Lowercase ==
    {"a", "b", "c", "d", "e", "f", "g", "h", "i", "j", "k", "l", "m", "n", "o", "p", "q", "r",
     "s", "t", "u", "v", "w", "x", "y", "z"}

\* the suggestions of detect_repository_name, character by character
suggestions ==
    << <<"l", "a", "k", "e", "-", "k", "a", "r", "i", "b", "a", "-", "w", "i", "n", "d", "-", "a", "n", "a", "l", "y", "s", "i", "s">>,
       <<"k", "a", "r", "i", "b", "a", "-", "f", "l", "o", "a", "t", "i", "n", "g", "-", "s", "o", "l", "a", "r", "-", "w", "i", "n", "d">>,
       <<"c", "h", "a", "r", "a", "r", "a", "-", "w", "i", "n", "d", "-", "a", "n", "a", "l", "y", "s", "i", "s">>,
       <<"w", "i", "n", "d", "-", "a", "n", "a", "l", "y", "s", "i", "s", "-", "t", "o", "o", "l", "k", "i", "t">> >>

\* choice.lower().replace(' ', '-')
lower_dashed(s) ==
    [i \in DOMAIN s |-> CASE s[i] = " " -> "-"
                          [] s[i] = "M" -> "m"
                          [] s[i] = "R" -> "r"
                          [] OTHER      -> s[i]]

\* the loop of detect_repository_name on one answer: the name accepted, or
\* << >> when the prompt is repeated
asked_name(choice) ==
    IF choice = << >> THEN << >>
    ELSE IF (\A i \in DOMAIN choice : choice[i] \in Digits) /\ Len(choice) = 1
            /\ choice[1] \in {"1", "2", "3", "4"}
    THEN suggestions[CHOOSE n \in 1..4 : choice[1] = <<"1", "2", "3", "4">>[n]]
    ELSE IF \A i \in DOMAIN choice :
               lower_dashed(choice)[i] \in Lowercase \cup Digits \cup {"-", "_", "."}
    THEN lower_dashed(choice)
    ELSE << >>

\* setup_github_remote: the URL that origin is set to
repo_url(kind, name) ==
    (IF kind = "ssh" THEN <<"git@github.com:chawas", "/">>
     ELSE <<"https:", "/", "/", "github.com", "/", "chawas", "/">>)
        \o name \o <<".", "g", "i", "t">>

\* s.rstrip(chars): the trailing characters that are in chars go
RECURSIVE rstrip(_, _)
rstrip(s, chars) ==
    IF s # << >> /\ s[Len(s)] \in chars THEN rstrip(SubSeq(s, 1, Len(s) - 1), chars) ELSE s

\* s.split('/')[-1]
RECURSIVE last_part(_)
last_part(s) ==
    IF s = << >> \/ s[Len(s)] = "/" THEN << >>
    ELSE Append(last_part(SubSeq(s, 1, Len(s) - 1)), s[Len(s)])

\* detect_repository_name where .git exists and origin is a github.com URL
detect_repository_name(remote_url) == last_part(rstrip(remote_url, {".", "g", "i", "t"}))

\* the answers given to the name prompt
NameChoices ==
    {<<"1">>, <<"2">>, <<"3">>, <<"4">>,
     <<"M", "y", " ", "R", "e", "p", "o">>,
     <<"a", ".", "b">>,
     <<"w", "i", "n", "d", "_", "k", "i", "t">>,
     <<"5">>,
     <<"7", "u", "p">>,
     <<"b", "a", "d", " ", "n", "a", "m", "e", "!">>,
     <<>>}

\* the calls that are checked
Calls ==
    {CallOf("push_to_github", [branch |-> b, stderr |-> e, result |-> "none", ran |-> << >>]) :
        b \in Branches, e \in ErrorTexts}
    \cup {CallOf("get_config", [singleton |-> 0, built |-> 0, result |-> 0, asked |-> "None"])}
    \cup {CallOf(f, [gitignore0 |-> i, gitignore |-> i, readme0 |-> m, readme |-> m]) :
             f \in {"setup_existing_github_02", "setup_existing_github_03"},
             i \in {"absent", "user"}, m \in {"absent", "user"}}
    \cup {CallOf("detect_repository_name",
                 [choice |-> c, kind |-> k, name |-> << >>, url |-> << >>, result |-> << >>]) :
             c \in NameChoices, k \in {"ssh", "https"}}



(***************************************************************************)
(* The state machine                                                       *)
(***************************************************************************)
VARIABLES
    variant,   \* the module whose ConfigManager is used
    file,      \* the backing file
    dirs,      \* the directories that exist
    refused,   \* the directories whose creation is refused
    today,     \* the day of the construction
    phase,     \* "new", then "ready", "raised" or "exited"
    config,    \* self.config
    attrs,     \* the path attributes of config_manager.py
    log,       \* what the construction logged or printed, in order
    file0,     \* the backing file as it was before the construction
    dirs0,     \* the directories as they were before the construction
    res,       \* the last accessor call and its result
    probe,     \* config_file: whether a path was given and, if none was, the
               \* candidate locations that hold a file and the one chosen
    call,      \* the last call after the first construction: how it ended (for a
               \* construction, how the call before it ended) and what it followed
    before,    \* the object and the filesystem as they were before that call
    run        \* the run of a launcher or of the GitHub setup script

vars == <<variant, file, dirs, refused, today, phase, config, attrs, log, file0, dirs0, res,
          probe, call, before, run>>

\* the variables of a ConfigManager and its filesystem
cfgvars == <<variant, file, dirs, refused, today, phase, config, attrs, log, file0, dirs0, res,
             probe, call, before>>

\* get and get_path change nothing of the object, the file or the directories:
\* a behaviour records one call of an accessor on the constructed object
NoCall == [op |-> "none", key |-> << >>, default |-> NoneV, value |-> NoneV, path |-> PathNone]

\* no call has followed the construction
NoMutator == [op |-> "none", st |-> "none", s |-> NoneV, e |-> NoneV, after |-> "none"]

\* what a call finds: the object's tree, attributes and state, and the filesystem
Snapshot(c, a, ph, f, ds) == [config |-> c, attrs |-> a, phase |-> ph, file |-> f, dirs |-> ds]

\* ConfigManager(path)
Given == [given |-> TRUE, present |-> {}, chosen |-> << >>]

\* ConfigManager(), with files at the locations of present
Unnamed(present) == [given |-> FALSE, present |-> present, chosen |-> << >>]

Init ==
    /\ variant \in Variants
    \* only config_manager.py is modelled with config_file=None
    /\ probe \in IF variant = "config_manager"
                  THEN {Given} \cup {Unnamed(present) : present \in PresentSets}
                  ELSE {Given}
    /\ \E i \in IF probe.given THEN InitialFiles
                  ELSE {j \in UnnamedFiles : j.file.exists <=> probe.present # {}} :
          /\ file = i.file
          /\ dirs = i.dirs
          /\ refused = i.refused
    \* only config_manager.py reads the clock
    /\ today \in IF variant = "config_manager" THEN Days ELSE {"2026-01-01"}
    /\ phase = "new"
    /\ config = NoneV
    /\ attrs = NoAttrs
    /\ log = << >>
    /\ file0 = file
    /\ dirs0 = dirs
    /\ res = NoCall
    /\ call = NoMutator
    /\ before = Snapshot(NoneV, NoAttrs, "new", file, dirs)
    /\ run = NoRun

\* ConfigManager(config_file) of the variant in use
init(v, pr, f, ds, rf, day) ==
    CASE v = "configuration_manager" -> init_cfg(f, ds, rf)
      [] v = "config_manager_01"     -> init_01(f, ds, rf)
      [] pr.given                    -> init_cm(f, ds, rf, day)
      [] OTHER                       -> init_unnamed_cm(pr.present, f, ds, rf, day)

\* the probe after a construction: the location chosen, and the locations
\* that hold a file now
probed(pr, f) ==
    IF pr.given THEN pr
    ELSE [given |-> FALSE,
          present |-> pr.present \cup
                        (IF f.exists THEN {first_existing(possible_paths, pr.present)} ELSE {}),
          chosen |-> first_existing(possible_paths, pr.present)]

Construct ==
    /\ phase = "new"
    /\ \E o \in {init(variant, probe, file, dirs, refused, today)} :
          /\ file' = o.file
          /\ dirs' = o.dirs
          /\ config' = o.config
          /\ attrs' = o.attrs
          /\ log' = o.log
          /\ phase' = o.phase
          /\ probe' = probed(probe, o.file)
    /\ UNCHANGED <<run, variant, refused, today, file0, dirs0, res, call, before>>

\* self.get(key, default) of the variant in use
get(v, c, key, default) ==
    CASE v = "configuration_manager" -> get_cfg(c, key, default)
      [] v = "config_manager_01"     -> get_01(c, key, default)
      [] OTHER                       -> get_cm(c, key, default)

Get ==
    /\ phase = "ready"
    /\ res = NoCall
    /\ call = NoMutator
    /\ \E key \in AskedKeys, default \in AskedDefaults :
          res' = [op |-> "get", key |-> key, default |-> default,
                  value |-> get(variant, config, key, default), path |-> PathNone]
    /\ UNCHANGED <<run, variant, file, dirs, refused, today, phase, config, attrs, log, file0, dirs0,
                   probe, call, before>>

\* self.get_path(key): config_manager.py has none
get_path(v, c, key) ==
    IF v = "configuration_manager" THEN get_path_cfg(c, key) ELSE get_path_01(c, key)

GetPath ==
    /\ phase = "ready"
    /\ res = NoCall
    /\ call = NoMutator
    /\ variant # "config_manager"
    /\ \E key \in AskedKeys :
          res' = [op |-> "get_path", key |-> key, default |-> NoneV,
                  value |-> NoneV, path |-> get_path(variant, config, key)]
    /\ UNCHANGED <<run, variant, file, dirs, refused, today, phase, config, attrs, log, file0, dirs0,
                   probe, call, before>>

\* self.update_analysis_period(s, e); config_manager.py has none
update_analysis_period(v, f, ds, c, l, s, e) ==
    IF v = "configuration_manager" THEN update_analysis_period_cfg(f, ds, c, l, s, e)
    ELSE update_analysis_period_01(f, ds, c, l, s, e)

UpdateAnalysisPeriod ==
    /\ phase = "ready"
    /\ res = NoCall
    /\ call = NoMutator
    /\ variant # "config_manager"
    /\ \E s \in StartYears, e \in EndYears :
          \E o \in {update_analysis_period(variant, file, dirs, config, log, s, e)} :
              /\ config' = o.config
              /\ file' = o.file
              /\ log' = o.log
              /\ call' = [op |-> "update", st |-> o.st, s |-> s, e |-> e, after |-> call.op]
    /\ before' = Snapshot(config, attrs, phase, file, dirs)
    /\ UNCHANGED <<run, variant, dirs, refused, today, phase, attrs, file0, dirs0, res, probe>>

\* self.save_config(); config_manager.py has none
save_config(v, f, ds, c, l) ==
    IF v = "configuration_manager" THEN save_config_cfg(f, ds, c, l) ELSE save_config_01(f, ds, c, l)

SaveConfig ==
    /\ phase = "ready"
    /\ res = NoCall
    /\ call.op \in {"none", "update"}
    /\ variant # "config_manager"
    /\ \E o \in {save_config(variant, file, dirs, config, log)} :
          /\ config' = o.config
          /\ file' = o.file
          /\ log' = o.log
          /\ call' = [op |-> "save", st |-> o.st, s |-> NoneV, e |-> NoneV, after |-> call.op]
    /\ before' = Snapshot(config, attrs, phase, file, dirs)
    /\ UNCHANGED <<run, variant, dirs, refused, today, phase, attrs, file0, dirs0, res, probe>>

\* a fresh ConfigManager on the same file path, in the filesystem the
\* program has left; the clock of config_manager.py may have moved on
Reconstruct ==
    /\ phase # "new"
    /\ res = NoCall
    /\ call.op \in {"none", "save"}
    /\ today' \in IF variant = "config_manager" THEN Days ELSE {today}
    /\ \E o \in {init(variant, probe, file, dirs, refused, today')} :
          /\ file' = o.file
          /\ dirs' = o.dirs
          /\ config' = o.config
          /\ attrs' = o.attrs
          /\ log' = o.log
          /\ phase' = o.phase
          /\ probe' = probed(probe, o.file)
    /\ call' = [op |-> "construct", st |-> call.st, s |-> NoneV, e |-> NoneV, after |-> call.op]
    /\ before' = Snapshot(config, attrs, phase, file, dirs)
    /\ file0' = file
    /\ dirs0' = dirs
    /\ UNCHANGED <<run, variant, refused, res>>

\* the base name, the extensions and the subdirectories handed to
\* get_output_filename
AskedBase == <<"wind_map">>

AskedExtensions == {<<"png">>, <<"csv">>}

AskedSubdirectories == {<< >>, <<"maps">>, <<"reports">>}

\* self.get_output_filename(base_name, extension, subdirectory);
\* config_manager.py has none
GetOutputFilename ==
    /\ phase = "ready"
    /\ res = NoCall
    /\ call = NoMutator
    /\ variant # "config_manager"
    /\ \E ext \in AskedExtensions, sub \in AskedSubdirectories :
          res' = [op |-> "get_output_filename", key |-> sub, default |-> Str(ext),
                  value |-> NoneV,
                  path |-> IF variant = "configuration_manager"
                           THEN get_output_filename_cfg(config, AskedBase, ext, sub,
                                    get_path_cfg(config, output_key(sub)))
                           ELSE get_output_filename_01(config, AskedBase, ext, sub,
                                    get_path_01(config, output_key(sub)))]
    /\ UNCHANGED <<run, variant, file, dirs, refused, today, phase, config, attrs, log, file0, dirs0,
                   probe, call, before>>

\* self.validate(), which config_manager_01.py alone has
Validate ==
    /\ phase = "ready"
    /\ res = NoCall
    /\ call = NoMutator
    /\ variant = "config_manager_01"
    /\ res' = [op |-> "validate", key |-> << >>, default |-> NoneV,
               value |-> validate_01(config), path |-> PathNone]
    /\ UNCHANGED <<run, variant, file, dirs, refused, today, phase, config, attrs, log, file0, dirs0,
                   probe, call, before>>

Next ==
    Construct \/ Get \/ GetPath \/ GetOutputFilename \/ Validate \/ UpdateAnalysisPeriod
        \/ SaveConfig \/ Reconstruct

Spec == Init /\ [][Next]_vars

\* a script starts on a system where no ConfigManager is in use
InitRun ==
    /\ run \in {r \in Runs : r.target => r.project} \cup Calls
    \* get_config works on a backing file of configuration_manager.py
    /\ variant = IF run.script = "get_config" THEN "configuration_manager" ELSE "config_manager"
    /\ probe = Given
    /\ \E i \in IF run.script = "get_config" THEN InitialFiles
                  ELSE {[file |-> FileRec(FALSE, TRUE, TRUE, "empty", NoneV), dirs |-> {},
                         refused |-> {}]} :
          /\ file = i.file
          /\ dirs = i.dirs
          /\ refused = i.refused
    /\ today = "2026-01-01"
    /\ phase = "new"
    /\ config = NoneV
    /\ attrs = NoAttrs
    /\ log = << >>
    /\ file0 = file
    /\ dirs0 = dirs
    /\ res = NoCall
    /\ call = NoMutator
    /\ before = Snapshot(NoneV, NoAttrs, "new", file, dirs)

\* the script runs up to the point where it waits: a launcher for its child,
\* the setup script for its first command
Launch ==
    /\ run.pc = "start"
    /\ \E kind \in {"spawned", "OSError"} : run' = main(run, Event(kind, 0))
    /\ UNCHANGED cfgvars

\* the child of a launcher exits, and the launcher goes on
ChildExits ==
    /\ run.pc = "child"
    /\ \E c \in ChildCodes : run' = main(run, Event("exited", c))
    /\ UNCHANGED cfgvars

\* the user presses Ctrl-C while the script waits
Interrupt ==
    /\ run.pc \in {"child", "git"}
    /\ run' = main(run, Event("interrupt", 0))
    /\ UNCHANGED cfgvars

\* the setup script runs its next git command, which succeeds or fails
GitCommand ==
    /\ run.pc = "git"
    /\ run.step <= Len(commands(run))
    /\ \E c \in {0, 1} : run' = main(run, Event("exited", c))
    /\ UNCHANGED cfgvars

\* the setup script has run its last command
GitFinish ==
    /\ run.pc = "git"
    /\ run.step > Len(commands(run))
    /\ run' = main(run, Event("returned", 0))
    /\ UNCHANGED cfgvars

\* push_to_github is called, and git answers
PushToGithub ==
    /\ run.script = "push_to_github"
    /\ run.pc = "call"
    /\ \E rename \in {0, 128}, code \in {0, 1, 128} : run' = push_to_github(run, rename, code)
    /\ UNCHANGED cfgvars

\* get_config(config_file) is called: it constructs a ConfigManager on the
\* backing file while the module holds none, and touches nothing once it
\* holds one
GetConfig ==
    /\ run.script = "get_config"
    /\ run.pc = "call"
    /\ run.step <= MaxCalls
    /\ \E arg \in ConfigFileArgs, o \in {init(variant, probe, file, dirs, refused, today)} :
          /\ run' = get_config(run, arg, o.phase)
          /\ IF run'.built # run.built
             THEN /\ arg # "other.json"
                  /\ file' = o.file
                  /\ dirs' = o.dirs
                  /\ config' = o.config
                  /\ attrs' = o.attrs
                  /\ log' = o.log
                  /\ phase' = o.phase
                  /\ file0' = file
                  /\ dirs0' = dirs
                  /\ before' = Snapshot(config, attrs, phase, file, dirs)
             ELSE UNCHANGED <<file, dirs, config, attrs, log, phase, file0, dirs0, before>>
    /\ UNCHANGED <<variant, refused, today, res, probe, call>>

\* a first run of setup_existing_github_02.py: no remote is set, the name is
\* asked for, and setup_github_remote sets origin to the URL built from it
SetupGithubRemote ==
    /\ run.script = "detect_repository_name"
    /\ run.pc = "call"
    /\ asked_name(run.choice) # << >>
    /\ run' = [run EXCEPT !.pc = "remote", !.name = asked_name(run.choice),
                          !.url = repo_url(run.kind, asked_name(run.choice))]
    /\ UNCHANGED cfgvars

\* a later run: detect_repository_name reads the name off origin's URL
DetectRepositoryName ==
    /\ run.script = "detect_repository_name"
    /\ run.pc = "remote"
    /\ run' = [run EXCEPT !.pc = "done", !.result = detect_repository_name(run.url)]
    /\ UNCHANGED cfgvars

\* setup_existing_github_02.py or setup_existing_github_03.py reaches the
\* files it creates
CreateFiles ==
    /\ run.script \in {"setup_existing_github_02", "setup_existing_github_03"}
    /\ run.pc = "call"
    /\ run' = IF run.script = "setup_existing_github_02" THEN written_02(run) ELSE written_03(run)
    /\ UNCHANGED cfgvars

NextRun ==
    Launch \/ ChildExits \/ Interrupt \/ GitCommand \/ GitFinish \/ PushToGithub \/ GetConfig
        \/ SetupGithubRemote \/ DetectRepositoryName \/ CreateFiles

SpecRun == InitRun /\ [][NextRun]_vars

(***************************************************************************)
(* What the claims speak of                                                *)
(***************************************************************************)
\* the value stored under the key path p of tree t
Subtree(t, p) ==
    [q \in {SubSeq(r, Len(p) + 1, Len(r)) :
                r \in {x \in DOMAIN t : Len(x) >= Len(p) /\ SubSeq(x, 1, Len(p)) = p}} |->
        t[p \o q]]

\* the key path p resolves in tree t
Resolves(t, p) == p \in DOMAIN t

\* the hardcoded default tree of a variant
DefaultOf(v, day) ==
    CASE v = "configuration_manager" -> default_config_cfg
      [] v = "config_manager_01"     -> default_config_01
      [] OTHER                       -> default_config_cm(day)

\* a construction has just ended: nothing has changed the object since
Constructed == phase # "new" /\ call.op \in {"none", "construct"}

\* the backing file held a document that was read and parsed
FileWasRead == file0.exists /\ file0.readable /\ file0.syn = "doc"

HasError(l) == \E i \in 1..Len(l) : l[i].level = "ERROR"

\* C1: no exception or process exit escapes the construction of a
\* ConfigManager, whatever the backing file and the filesystem are
C1_NothingEscapes == phase \in {"new", "ready"}

\* C2: in config_manager.py, for every top-level key K whose default and user
\* values are both mappings, the loaded K holds every user entry of K and
\* every default entry of K whose key the user did not give; the file
\* {analysis_period: {start_year: 2018}} loads with start_year 2018 and
\* end_year 2020
C2_OneLevelMerge ==
    (variant = "config_manager" /\ Constructed /\ Merges(file0)) =>
        /\ \A K \in Keys(file0.tree) :
              (HasKey(default_literal_cm, K) /\ default_literal_cm[<<K>>].kind = "map"
                    /\ file0.tree[<<K>>].kind = "map") =>
                 /\ \A p \in DOMAIN file0.tree :
                       (Len(p) >= 2 /\ p[1] = K) => (Resolves(config, p) /\ config[p] = file0.tree[p])
                 /\ \A p \in DOMAIN default_literal_cm :
                       (Len(p) >= 2 /\ p[1] = K /\ ~Resolves(file0.tree, <<K, p[2]>>)) =>
                          (Resolves(config, p) /\ config[p] = default_config_cm(today)[p])
                 /\ \A p \in DOMAIN config :
                       (Len(p) >= 2 /\ p[1] = K) =>
                          (Resolves(file0.tree, p) \/ (Resolves(default_literal_cm, p)
                                                        /\ ~Resolves(file0.tree, <<K, p[2]>>)))
        /\ file0.tree = MapOf([analysis_period |-> MapOf([start_year |-> Num("2018")])]) =>
              /\ Subtree(config, <<"analysis_period", "start_year">>) = Num("2018")
              /\ Subtree(config, <<"analysis_period", "end_year">>) = Num("2020")

C2_Witness ==
    /\ variant = "config_manager"
    /\ phase = "ready"
    /\ file0.tree = MapOf([analysis_period |-> MapOf([start_year |-> Num("2018")])])
    /\ Merges(file0)
    /\ Subtree(config, <<"analysis_period", "start_year">>) = Num("2018")
    /\ Subtree(config, <<"analysis_period", "end_year">>) = Num("2020")

\* C3: after the overlay of a user file onto the default tree, every key of
\* the default tree, at any depth, still resolves to some value, the default
\* or the user's override (read here in the claim's favour: a key below one
\* that the user overrode with a value that is no mapping is not asked for)
C3_DefaultKeysResolve ==
    (variant = "config_manager" /\ Constructed /\ Merges(file0)) =>
        \A p \in DOMAIN default_literal_cm :
            (\A i \in 1..(Len(p) - 1) :
                Resolves(file0.tree, SubSeq(p, 1, i)) => file0.tree[SubSeq(p, 1, i)].kind = "map")
                => Resolves(config, p)

\* C4: for every configuration file that lacks a key K of the default tree,
\* get("K") with no caller default returns the default tree's value for K
C4_MissingKeyGivesDefault ==
    (res.op = "get" /\ res.default = NoneV /\ FileWasRead
        /\ Resolves(DefaultOf(variant, today), res.key) /\ ~Resolves(file0.tree, res.key)) =>
        res.value = Subtree(DefaultOf(variant, today), res.key)

\* C5: when the backing file exists but is malformed, loading (in
\* config_manager_01.py and config_manager.py) does not raise, the in-memory
\* tree equals the hardcoded default tree, and an error is logged; a
\* construction that then fails does so in the creation of a directory
C5_MalformedFallsBack ==
    (variant \in {"config_manager_01", "config_manager"} /\ Constructed
        /\ file0.exists /\ file0.readable
        /\ (file0.syn = "bad" \/ (file0.syn = "empty" /\ variant = "config_manager_01"))) =>
        /\ config = DefaultOf(variant, today)
        /\ HasError(log)
        /\ phase \in {"ready", "raised"}
        /\ phase = "raised" =>
              \E i \in 1..Len(directories_cm) : attrs[directories_cm[i]] \notin dirs

C5_Witness ==
    /\ variant = "config_manager_01"
    /\ phase = "ready"
    /\ file0.exists /\ file0.readable /\ file0.syn = "bad"
    /\ config = default_config_01
    /\ HasError(log)

\* C6: after a ConfigManager is constructed with the default tree (backing
\* file absent), the directories named by paths.output.maps, .timeseries,
\* .statistics and .reports, resolved against paths.base_directory, exist
C6_OutputDirectoriesExist ==
    (phase = "ready" /\ ~file0.exists /\ refused = {} /\ config = DefaultOf(variant, today)) =>
        \A k \in {"maps", "timeseries", "statistics", "reports"} :
            /\ Resolves(config, <<"paths", "output", k>>)
            /\ StrPath(JoinPath(ParsePath(config[<<"paths", "base_directory">>].s),
                                ParsePath(config[<<"paths", "output", k>>].s))) \in dirs

\* C7: when the backing file does not exist, construction is not an error,
\* the in-memory tree equals the default tree, and afterwards the backing
\* file exists and holds that tree, also when its directory did not exist
C7_MissingFileIsCreated ==
    (Constructed /\ ~file0.exists /\ file0.writable /\ refused = {}) =>
        /\ phase = "ready"
        /\ config = DefaultOf(variant, today)
        /\ file.exists
        /\ file.syn = "doc"
        /\ file.tree = DefaultOf(variant, today)

\* C8: get(key, d) returns d exactly when some segment is reached while the
\* current value is not a mapping or lacks the segment, and otherwise the
\* stored value unchanged (a stored null or falsy value included), in every
\* variant
C8_GetIsExact ==
    res.op = "get" =>
        res.value = IF Resolves(config, res.key) THEN Subtree(config, res.key) ELSE res.default

\* C8, amended: so it is in configuration_manager.py and config_manager_01.py;
\* the get of config_manager.py returns d also when the stored value is null
C8_GetExactButNull ==
    res.op = "get" =>
        res.value =
            IF Resolves(config, res.key)
                  /\ ~(variant = "config_manager" /\ config[res.key].kind = "null")
            THEN Subtree(config, res.key)
            ELSE res.default

C8_Witness ==
    /\ variant = "config_manager"
    /\ res.op = "get"
    /\ res.key = <<"project", "name">>
    /\ Resolves(config, res.key)
    /\ config[res.key].kind = "null"
    /\ res.default = Str(<<"fallback">>)
    /\ res.value = res.default

\* the case of C9: get_path was asked for a key that stores a non-empty
\* path string, and paths.base_directory is configured as a string
C9_Case ==
    /\ res.op = "get_path"
    /\ Resolves(config, res.key)
    /\ config[res.key].kind = "str"
    /\ config[res.key].s # << >>
    /\ Resolves(config, <<"paths", "base_directory">>)
    /\ config[<<"paths", "base_directory">>].kind = "str"

\* C9: for a stored relative path string P, get_path returns join(B, P) with B
\* the configured paths.base_directory; for a stored absolute P it returns P
\* unchanged
C9_JoinOrUnchanged ==
    C9_Case =>
        /\ res.path.st = "ok"
        /\ res.path.s = OsJoin(config[<<"paths", "base_directory">>].s, config[res.key].s)

\* C9, amended: get_path returns the pathlib normal form of join(B, P), and of
\* P when P is absolute: empty segments, "." segments and a trailing slash
\* are dropped (two leading slashes are kept), so P comes back unchanged
\* only when it is in that form already
C9_NormalisedJoin ==
    C9_Case =>
        /\ res.path.st = "ok"
        /\ res.path.s =
              StrPath(ParsePath(OsJoin(config[<<"paths", "base_directory">>].s, config[res.key].s)))

C9_Witness ==
    /\ C9_Case
    /\ res.key = <<"scripts">>
    /\ config[res.key].s = <<"/", "a", "/">>
    /\ res.path.st = "ok"
    /\ res.path.s = <<"/", "a">>

\* C10: every path the resolver hands out is absolute: each result of
\* get_path other than None, and each path attribute set up at load time,
\* for every tree
C10_PathsAreAbsolute ==
    /\ (res.op = "get_path" /\ res.path.st = "ok") => StartsAtRoot(res.path.s)
    /\ (variant = "config_manager" /\ phase = "ready") =>
          \A n \in DOMAIN attrs : StartsAtRoot(attrs[n])

\* C11: get_path(key) never raises, whatever is stored under the key; it
\* returns None exactly when the key is missing or its value is empty (falsy),
\* and a path string otherwise
C11_GetPathNeverRaises ==
    res.op = "get_path" =>
        /\ res.path.st # "raise"
        /\ (res.path.st = "none") <=>
              (~Resolves(config, res.key) \/ ~Truthy(Subtree(config, res.key)))

\* the creation of the directory s fails: one of s and its ancestors is
\* refused and was not there before the construction
Blocked(s) ==
    \E j \in DOMAIN Chain(ParsePath(s)) :
        Chain(ParsePath(s))[j] \in refused /\ Chain(ParsePath(s))[j] \notin dirs0

\* the load reached its directory-creation loop with a complete list
ReachedDirectories ==
    CASE variant = "config_manager"        -> DOMAIN attrs # {}
      [] variant = "config_manager_01"     -> Constructed
      [] OTHER -> /\ Constructed /\ IsDict(config)
                  /\ \A i \in 1..Len(directories_cfg) :
                        get_path_cfg(config, directories_cfg[i]).st # "raise"

\* the directories that loop is to create
ListedDirectories ==
    CASE variant = "config_manager" -> {attrs[directories_cm[i]] : i \in 1..Len(directories_cm)}
      [] variant = "config_manager_01" ->
            {directories_01(config)[i].s :
                i \in {j \in 1..Len(directories_01(config)) : directories_01(config)[j].usable}}
      [] OTHER ->
            {get_path_cfg(config, directories_cfg[i]).s :
                i \in {j \in 1..Len(directories_cfg) : get_path_cfg(config, directories_cfg[j]).st = "ok"}}

\* C12: when the creation of one directory fails during the load, the failure
\* is logged, every remaining directory of the list is still created and the
\* construction completes
C12_FailedDirectoryIsSkipped ==
    (ReachedDirectories /\ \E s \in ListedDirectories : Blocked(s)) =>
        /\ phase = "ready"
        /\ HasError(log)
        /\ \A s \in ListedDirectories : ~Blocked(s) => DirExists(s, dirs)

PeriodPaths(tree) ==
    {p \in DOMAIN tree :
        \/ p = <<"analysis_period">>
        \/ Len(p) >= 2 /\ p[1] = "analysis_period" /\ p[2] \in {"start_year", "end_year"}}

\* C14: every call of update_analysis_period(s, e) that returns leaves a tree
\* that differs from the previous one only in analysis_period.start_year and
\* analysis_period.end_year, which hold s and e, and leaves the backing file
\* holding exactly that tree (as JSON writes it)
C14_UpdateKeepsFileInStep ==
    (call.op = "update" /\ call.st # "raised") =>
        /\ DOMAIN config \ PeriodPaths(config) = DOMAIN before.config \ PeriodPaths(before.config)
        /\ \A p \in DOMAIN config \ PeriodPaths(config) : config[p] = before.config[p]
        /\ Subtree(config, <<"analysis_period", "start_year">>) = call.s
        /\ Subtree(config, <<"analysis_period", "end_year">>) = call.e
        /\ file.exists
        /\ file.syn = "doc"
        /\ file.tree = JsonForm(config)

\* C15: a second construction against the same backing file and base
\* directory, after a first one that completed, completes too with no error
\* in its directory-creation pass, yields the same resolved paths, and leaves
\* the filesystem as the first construction left it
C15_SecondConstructionIsSame ==
    (call.op = "construct" /\ call.after = "none" /\ before.phase = "ready") =>
        /\ phase = "ready"
        /\ attrs = before.attrs
        /\ variant # "config_manager" =>
              \A k \in AskedKeys :
                  get_path(variant, config, k).st = get_path(variant, before.config, k).st
                    /\ get_path(variant, config, k).s = get_path(variant, before.config, k).s
        /\ dirs = before.dirs
        /\ file = before.file

\* C16: with no file path given, the candidate locations are probed in
\* their listed order and the first that exists becomes the backing file;
\* when none exists the first candidate location becomes the backing file,
\* the default tree is used and (the filesystem permitting) is written there
C16_FirstExistingOrFirst ==
    (variant = "config_manager" /\ ~probe.given /\ Constructed /\ call.op = "none") =>
        /\ file0.exists =>
              \E i \in 1..Len(possible_paths) :
                  /\ probe.chosen = possible_paths[i]
                  /\ probe.chosen \in probe.present
                  /\ \A j \in 1..(i - 1) : possible_paths[j] \notin probe.present
        /\ ~file0.exists =>
              /\ probe.chosen = possible_paths[1]
              /\ phase = "ready" => config = default_config_cm(today)
              /\ (file0.writable /\ refused = {}) =>
                    /\ phase = "ready"
                    /\ file.exists
                    /\ file.syn = "doc"
                    /\ file.tree = default_config_cm(today)
                    /\ probe.present = {possible_paths[1]}

C16_Witness ==
    /\ variant = "config_manager"
    /\ ~probe.given
    /\ call.op = "none"
    /\ ~file0.exists
    /\ dirs0 = {}
    /\ phase = "ready"
    /\ probe.chosen = possible_paths[1]
    /\ ConfigDir \in dirs
    /\ file.exists
    /\ file.tree = default_config_cm(today)
    /\ config = default_config_cm(today)

\* C17: in config_manager.py, a mapping the user gives one level below a
\* top-level key (paths.data) replaces the default's mapping wholesale, so the
\* loaded one equals the user's exactly, while the entries of the top-level
\* key that the user did not give (paths.output, paths.logs) keep their
\* default values
C17_DeeperMappingReplaced ==
    (variant = "config_manager" /\ Constructed /\ Merges(file0)) =>
        \A K \in Keys(file0.tree) \cap Keys(default_literal_cm) :
            (IsDict(Item(file0.tree, K)) /\ IsDict(Item(default_literal_cm, K))) =>
                /\ \A k \in Keys(Item(file0.tree, K)) :
                      IsDict(Subtree(file0.tree, <<K, k>>)) =>
                          /\ Resolves(config, <<K, k>>)
                          /\ Subtree(config, <<K, k>>) = Subtree(file0.tree, <<K, k>>)
                /\ \A k \in Keys(Item(default_literal_cm, K)) \ Keys(Item(file0.tree, K)) :
                      /\ Resolves(config, <<K, k>>)
                      /\ Subtree(config, <<K, k>>) = Subtree(default_config_cm(today), <<K, k>>)

C17_Witness ==
    /\ variant = "config_manager"
    /\ Constructed
    /\ Merges(file0)
    /\ file0.tree = MapOf([paths |-> MapOf([data |-> MapOf([wind_data |-> Str(<<"x.nc">>)])])])
    /\ Subtree(config, <<"paths", "data">>) = MapOf([wind_data |-> Str(<<"x.nc">>)])
    /\ ~Resolves(config, <<"paths", "data", "era5_raw">>)
    /\ Subtree(config, <<"paths", "logs">>) = Str(<<"logs">>)
    /\ Resolves(config, <<"paths", "output", "maps">>)

\* C18: run_analysis_terminal.py and run_analysis_05.py end with exit code 0
\* exactly when the child was started and exited with 0, and with exit code 1
\* in every other case (interpreter or script missing, nonzero exit of the
\* child, interrupt, failure to start the child)
C18_ZeroExactlyOnChildSuccess ==
    (run.script \in {"run_analysis_terminal", "run_analysis_05"} /\ run.pc = "done") =>
        run.exit = IF run.child = "exited" /\ run.code = 0 THEN 0 ELSE 1

C18_Witness ==
    /\ run.script = "run_analysis_terminal"
    /\ run.pc = "done"
    /\ run.venv /\ run.target
    /\ run.child = "exited"
    /\ run.code = 0
    /\ run.exit = 0

\* C19 as stated: a launcher whose child has exited with code c ends with
\* exit code c itself
C19_ExitCodeVerbatim ==
    (run.script \in Launchers /\ run.pc = "done" /\ run.child = "exited") =>
        run.exit = run.code

\* C19: a launcher that has started its child does not end while the child
\* runs, and once the child has exited with code c the launcher ends with 0
\* if c is 0 and with 1 for every other c
C19_ExitCodeIsZeroOrOne ==
    (run.script \in Launchers /\ run.child # "none") =>
        /\ run.child = "running" => run.pc = "child"
        /\ (run.pc = "done" /\ run.child = "exited") =>
              run.exit = IF run.code = 0 THEN 0 ELSE 1

C19_Witness ==
    /\ run.script = "run_analysis_05"
    /\ run.pc = "done"
    /\ run.child = "exited"
    /\ run.code = 2
    /\ run.exit = 1

\* C20: when a git command of setup_existing_github_04.py has exited nonzero,
\* its failure has been printed and the script ends with a nonzero exit code
C20_FailedGitStepEndsNonzero ==
    (run.script = "setup_existing_github_04" /\ run.pc = "done") =>
        \A cmd \in run.failed \cap {"git init", "git add .", "git commit",
                                    "git remote add origin", "git branch -M main",
                                    "git push -u origin main"} :
            /\ \E i \in DOMAIN run.out : run.out[i] = <<"fail", cmd>>
            /\ run.exit # 0

\* C21: push_to_github returns True exactly when git push -u origin main has
\* run and exited with 0, and False otherwise; git branch -M main runs, and
\* before the push, only when the current branch is not main; the text of
\* git's error adds a hint to what is printed and leaves the result as the
\* exit code alone decides it
C21_PushResultIsExitCode ==
    (run.script = "push_to_github" /\ run.pc = "done") =>
        /\ run.result \in {"True", "False"}
        /\ run.result = "True" <=>
              (\E i \in DOMAIN run.ran : run.ran[i] = "git push -u origin main") /\ run.code = 0
        /\ (\E i \in DOMAIN run.ran : run.ran[i] = "git branch -M main") <=> run.branch # "main"
        /\ \A i \in DOMAIN run.ran : run.ran[i] = "git branch -M main" => i = 1
        /\ (\E i \in DOMAIN run.out : run.out[i][1] = "info") <=>
              (run.stderr = "Permission denied" /\ run.code # 0 /\ run.result = "False"
               /\ Len(run.ran) > 0 /\ run.ran[Len(run.ran)] = "git push -u origin main")

C21_Witness ==
    /\ run.script = "push_to_github"
    /\ run.pc = "done"
    /\ run.branch = "master"
    /\ run.stderr = "Permission denied"
    /\ run.ran = <<"git branch -M main", "git push -u origin main">>
    /\ run.code = 128
    /\ run.result = "False"
    /\ \E i \in DOMAIN run.out : run.out[i][1] = "info"

\* C22: while the module holds no ConfigManager, a get_config call constructs
\* one (and holds it if the construction returned); once it holds one, every
\* later call returns that instance, constructs nothing and leaves the
\* backing file, the directories and the object as they are, whatever
\* config_file it is given
C22_SingletonIsReused ==
    [][run.script = "get_config" =>
          IF run.singleton = 0
          THEN run'.built = run.built + 1
          ELSE /\ run'.singleton = run.singleton
               /\ run'.result = run.singleton
               /\ run'.built = run.built
               /\ file' = file /\ dirs' = dirs /\ config' = config /\ log' = log]_vars

C22_Witness ==
    /\ run.script = "get_config"
    /\ run.step = 4
    /\ run.built = 1
    /\ run.singleton = 1
    /\ run.result = 1
    /\ run.asked = "other.json"
    /\ phase = "ready"
    /\ file0.exists /\ file0.syn = "doc"

\* the last line a run printed
LastLine(r) == IF r.out = << >> THEN "" ELSE r.out[Len(r.out)][2]

C24_SuccessIsReported ==
    (/\ run.script = "run_analysis_03" \/ (run.script = "run_analysis_04" /\ run.choice = "2")
     /\ run.pc = "done"
     /\ run.venv /\ run.target /\ run.packages
     /\ run.child # "interrupted"
     /\ run.child = "exited" => run.code = 0
     /\ LastLine(run) # "Error running analysis") =>
        run.exit = 0

\* C26: in run_analysis_04.py, once the method is asked for, choice 1 runs the
\* direct method alone, choice 3 the direct method and then, only if that
\* failed, the virtual-environment method, and every other choice the
\* virtual-environment method alone; main returns 0 exactly when the last
\* method that ran succeeded, else 1
C26_ChoiceSelectsMethods ==
    (run.script = "run_analysis_04" /\ run.pc = "done" /\ run.methods # << >>) =>
        /\ run.methods = CASE run.choice = "1" -> <<"direct">>
                           [] run.choice = "3" -> IF run.target /\ run.direct THEN <<"direct">>
                                                  ELSE <<"direct", "venv">>
                           [] OTHER -> <<"venv">>
        /\ run.exit \in {0, 1}
        /\ run.exit = 0 <=>
              IF run.methods[Len(run.methods)] = "direct" THEN run.target /\ run.direct
              ELSE run.child = "exited" /\ run.code = 0

C26_Witness ==
    /\ run.script = "run_analysis_04"
    /\ run.pc = "done"
    /\ run.choice = "3"
    /\ run.target /\ ~run.direct
    /\ run.methods = <<"direct", "venv">>
    /\ run.exit = 1

\* the directory that C25 names for a call: paths.output.<sub>, or
\* paths.output.base when no subdirectory is given
OutputDirKey(sub) == <<"paths", "output">> \o (IF sub = << >> THEN <<"base">> ELSE sub)

\* C25: for a tree that holds paths.output.<sub> and the two years s and e of
\* analysis_period, get_output_filename(base, ext, sub) returns the resolved
\* paths.output.<sub> directory joined with "<base>_<s>_<e>.<ext>", and with
\* no subdirectory the resolved paths.output.base directory joined with it
C25_OutputFilenameJoinsYears ==
    (/\ res.op = "get_output_filename"
     /\ get_path(variant, config, OutputDirKey(res.key)).st = "ok"
     /\ Truthy(get(variant, config, <<"analysis_period", "start_year">>, NoneV))
     /\ Truthy(get(variant, config, <<"analysis_period", "end_year">>, NoneV))) =>
        /\ res.path.st = "ok"
        /\ res.path.s =
              OsJoin(get_path(variant, config, OutputDirKey(res.key)).s,
                     AskedBase \o <<"_">>
                         \o fstring(get(variant, config, <<"analysis_period", "start_year">>, NoneV))
                         \o <<"_">>
                         \o fstring(get(variant, config, <<"analysis_period", "end_year">>, NoneV))
                         \o <<".">> \o fstring(res.default))

\* C27: for every repository name the setup accepts, once origin is set to
\* the URL built from that name, detect_repository_name on a later run
\* returns exactly that name
C27_RepositoryNameRoundTrip ==
    (run.script = "detect_repository_name" /\ run.pc = "done") => run.result = run.name

\* C28: in config_manager_01.py and config_manager.py, when the backing file
\* exists, can be read and is empty or does not parse, its content after the
\* construction is what it was before
C28_LoadingKeepsTheFile ==
    (/\ variant \in {"config_manager_01", "config_manager"}
     /\ Constructed
     /\ file0.exists /\ file0.readable
     /\ file0.syn \in {"bad", "empty"}) =>
        /\ file.exists
        /\ file.syn = file0.syn
        /\ file.tree = file0.tree

\* C29: in setup_existing_github_02.py, setup_existing_github_03.py and
\* setup_existing_github_04.py, a .gitignore or a README.md that is present
\* before the run holds the same content after it
C29_ExistingFilesAreKept ==
    (run.script \in {"setup_existing_github_02", "setup_existing_github_03",
                     "setup_existing_github_04"} /\ run.pc = "done") =>
        /\ run.gitignore0 # "absent" => run.gitignore = run.gitignore0
        /\ run.readme0 # "absent" => run.readme = run.readme0

\* C30: validate() returns True for the tree produced by
\* create_default_config of config_manager_01.py
C30_DefaultTreeValidates ==
    (variant = "config_manager_01" /\ res.op = "validate" /\ config = default_config_01) =>
        res.value = Bool("True")

====
